---- MODULE Spec2Model ----
(***************************************************************************)
(* Tender cache of Hola-Doc: the SQLite store (engine/seace_db.py), the    *)
(* OCDS normalizer and sync run (engine/seace_ocds.py) and the business    *)
(* filters (engine/seace_exports.py).                                      *)
(*                                                                         *)
(* Python values are modelled as optionals: None is the empty tuple and a  *)
(* value x that is not None is the one-element tuple <<x>>.  A dict is a   *)
(* function from its keys, a list is a sequence.                           *)
(***************************************************************************)
EXTENDS Integers, Sequences, FiniteSets, TLC

VARIABLES
    procesos,       \* rows of table procesos (a set: UNIQUE is not built in)
    sync_metadata,  \* rows of table sync_metadata
    now,            \* the reading the wall clock gives next (datetime.now())
    ult,            \* the last store write: what was called and what it found
    resultado,      \* the report returned by the last sincronizar_sqlite
    consulta,       \* the last call of buscar and the rows it returned
    entrada,        \* the list handed to a business filter
    hoy,            \* the calendar day the filters run on
    llamada,        \* the last business filter called, and its parameter
    salida,         \* what the last business filter returned
    diaria,         \* the result of the last ejecutar_sincronizacion_diaria
    locks,          \* threading.Lock objects: the thread holding each, or 0
    pc,             \* where each thread is in the operation it runs
    local,          \* the local variables of each thread's operation
    _sincronizando,     \* SEACEAutoSearcher._sincronizando of the global searcher
    _ultimo_resultado,  \* the identifiers in SEACEAutoSearcher._ultimo_resultado
    confirmado      \* the rows of procesos as of the last commit

\* The state of the threads.
hilos == <<locks, pc, local, _sincronizando, _ultimo_resultado, confirmado>>

vars == <<procesos, sync_metadata, now, ult, resultado, consulta,
          entrada, hoy, llamada, salida, diaria, hilos>>

(***************************************************************************)
(* Bounds of the model.                                                    *)
(***************************************************************************)
MaxTime == 6        \* the clock stops at this reading
MaxLote == 2        \* longest list handed to guardar_procesos_batch
MaxPaginas == 2     \* most pages the feed answers in one run
MaxLista == 3       \* longest list handed to a business filter

(***************************************************************************)
(* Python values.                                                          *)
(***************************************************************************)
None == <<>>
V(x) == <<x>>
IsNone(v) == v = None
Val(v) == v[1]
\* dict.get(k, default): an explicit None in the dict is returned as None.
Get(d, k, default) == IF k \in DOMAIN d THEN d[k] ELSE default

(***************************************************************************)
(* Text of a timestamp.  datetime.isoformat() writes fixed-width fields    *)
(* from the most significant down and leaves the last field (the           *)
(* microseconds) out when it is zero.  The clock counts ticks, TicksPorHora *)
(* to the hour; the text is the hour field followed by the sub-hour field  *)
(* when that is not zero.  Texts are compared as SQLite compares TEXT:     *)
(* field by field from the left, a proper prefix being smaller.            *)
(***************************************************************************)
TicksPorHora == 2

\* A timestamp text cut at the hour.
isoformatSinFraccion(t) == <<t \div TicksPorHora>>

isoformat(t) ==
    IF t % TicksPorHora = 0 THEN <<t \div TicksPorHora>> ELSE <<t \div TicksPorHora, t % TicksPorHora>>

RECURSIVE TextLt(_, _)
TextLt(a, b) ==
    IF b = <<>> THEN FALSE
    ELSE IF a = <<>> THEN TRUE
    ELSE IF Head(a) # Head(b) THEN Head(a) < Head(b)
    ELSE TextLt(Tail(a), Tail(b))

\* a > b
TextGt(a, b) == TextLt(b, a)

\* a >= b
TextGe(a, b) == ~TextLt(a, b)

\* timedelta(hours=h), in ticks
timedelta_hours(h) == h * TicksPorHora

(***************************************************************************)
(* Table procesos (CREATE TABLE, seace_db.py 51-74).  The surrogate key id *)
(* is left out: nothing in the code reads it.                              *)
(***************************************************************************)
Columnas ==
    {"nomenclatura", "entidad", "descripcion", "tipo_objeto",
     "tipo_procedimiento", "departamento", "valor_referencial", "moneda",
     "estado", "fecha_publicacion", "fecha_registro_participantes",
     "fecha_consultas", "fecha_observaciones", "fecha_integracion_bases",
     "fecha_presentacion_propuestas", "fecha_buena_pro", "url_ficha",
     "actualizado_en", "fuente"}

\* The columns a caller supplies: all but the store-assigned timestamp.
ColumnasDato == Columnas \ {"actualizado_en"}

\* DEFAULT clauses of the schema, for the columns that have one.
ColumnDefault ==
    [valor_referencial |-> V(0), moneda |-> V("PEN"), fuente |-> V("selenium")]

\* The tuple of values bound to the INSERT (seace_db.py 126-146), read at
\* clock reading t.
Fila(proceso, t) ==
    [c \in Columnas |->
        CASE c = "valor_referencial" -> Get(proceso, c, V(0))
          [] c = "moneda"            -> Get(proceso, c, V("PEN"))
          [] c = "fuente"            -> Get(proceso, c, V("selenium"))
          [] c = "actualizado_en"    -> V(isoformat(t))
          [] OTHER                   -> Get(proceso, c, None)]

\* nomenclatura TEXT UNIQUE NOT NULL: a NULL identifier aborts the statement
\* (the column has no default for REPLACE to fall back on).
ViolaNotNull(fila) == IsNone(fila.nomenclatura)

\* An upsert that keeps the old value of every column the new row leaves NULL.
InsertOrMerge(tabla, fila) ==
    LET viejas == {r \in tabla : r.nomenclatura = fila.nomenclatura}
        fusion == IF viejas = {} THEN fila
                  ELSE LET vieja == CHOOSE r \in viejas : TRUE
                       IN [c \in DOMAIN fila |->
                              IF IsNone(fila[c]) THEN vieja[c] ELSE fila[c]]
    IN (tabla \ viejas) \cup {fusion}

\* A plain INSERT on a table without the UNIQUE constraint.
InsertSinBorrar(tabla, fila) == tabla \cup {fila}

\* INSERT OR REPLACE: the rows that clash on the UNIQUE column are deleted,
\* then the new row is inserted.
InsertOrReplace(tabla, fila) ==
    {r \in tabla : r.nomenclatura # fila.nomenclatura} \cup {fila}

\* A batch that stops at the first row that fails.
RECURSIVE BatchLoopAborta(_, _, _)
BatchLoopAborta(tabla, lote, t) ==
    IF lote = <<>> \/ ViolaNotNull(Fila(Head(lote), t))
    THEN [tabla |-> tabla, guardados |-> 0]
    ELSE LET rest == BatchLoopAborta(InsertOrReplace(tabla, Fila(Head(lote), t)),
                                     Tail(lote), t + 1)
         IN [tabla |-> rest.tabla, guardados |-> rest.guardados + 1]

\* The loop of guardar_procesos_batch over lote from clock reading t: each row
\* reads the clock once; a failing row is logged and skipped.
RECURSIVE BatchLoop(_, _, _)
BatchLoop(tabla, lote, t) ==
    IF lote = <<>> THEN [tabla |-> tabla, guardados |-> 0]
    ELSE LET fila == Fila(Head(lote), t)
             paso == IF ViolaNotNull(fila) THEN tabla
                     ELSE InsertOrReplace(tabla, fila)
             rest == BatchLoop(paso, Tail(lote), t + 1)
         IN [tabla |-> rest.tabla,
             guardados |-> rest.guardados + (IF ViolaNotNull(fila) THEN 0 ELSE 1)]

(***************************************************************************)
(* The dicts callers hand to the store.  Procesos[1] is the record of the  *)
(* module's own test (seace_db.py 406-414) with a short identifier.        *)
(***************************************************************************)
Procesos ==
    << [nomenclatura |-> V("a"), entidad |-> V("ENTIDAD DE PRUEBA"),
        descripcion |-> V("Descripcion de prueba"), tipo_objeto |-> V("Obra"),
        departamento |-> V("ANCASH"), valor_referencial |-> V(100),
        estado |-> V("Convocado")],
       [nomenclatura |-> V("a"), entidad |-> V("OTRA ENTIDAD"),
        valor_referencial |-> V(42800), moneda |-> V("USD"),
        fecha_presentacion_propuestas |->
            V(<<"3", "1", "/", "1", "2", "/", "2", "0", "2", "6">>),
        fuente |-> V("ocds")],
       [nomenclatura |-> V("b"), valor_referencial |-> None,
        departamento |-> V("LIMA"), fuente |-> V("demo")],
       [nomenclatura |-> None, entidad |-> V("SIN NOMENCLATURA")],
       [entidad |-> V("SIN CLAVE")] >>

IdxProcesos == 1..Len(Procesos)

RECURSIVE SeqsUpTo(_, _)
SeqsUpTo(S, n) ==
    IF n = 0 THEN {<<>>}
    ELSE LET prev == SeqsUpTo(S, n - 1)
         IN prev \cup {Append(s, x) : s \in {q \in prev : Len(q) = n - 1}, x \in S}

Lotes == SeqsUpTo(IdxProcesos, MaxLote)

DictsDe(idxs) == [i \in 1..Len(idxs) |-> Procesos[idxs[i]]]

(***************************************************************************)
(* Date texts are strings of characters (sequences of one-character        *)
(* strings), so that splitting and parsing are computed, not assumed.      *)
(***************************************************************************)
Digitos == <<"0", "1", "2", "3", "4", "5", "6", "7", "8", "9">>

EsDigito(c) == \E i \in 1..Len(Digitos) : Digitos[i] = c
ValorDigito(c) == (CHOOSE i \in 1..Len(Digitos) : Digitos[i] = c) - 1

\* str.split(sep): the pieces between the separators, empty pieces included.
RECURSIVE SplitDesde(_, _, _)
SplitDesde(s, sep, actual) ==
    IF s = <<>> THEN <<actual>>
    ELSE IF Head(s) = sep THEN <<actual>> \o SplitDesde(Tail(s), sep, <<>>)
    ELSE SplitDesde(Tail(s), sep, Append(actual, Head(s)))

split(s, sep) == SplitDesde(s, sep, <<>>)

\* int(text) for a text of decimal digits; None stands for ValueError.
RECURSIVE ValorDecimal(_, _)
ValorDecimal(s, acc) ==
    IF s = <<>> THEN acc
    ELSE ValorDecimal(Tail(s), 10 * acc + ValorDigito(Head(s)))

int(s) ==
    IF s # <<>> /\ \A i \in 1..Len(s) : EsDigito(s[i])
    THEN V(ValorDecimal(s, 0)) ELSE None

\* The proleptic Gregorian calendar of datetime.
EsBisiesto(y) == (y % 4 = 0 /\ y % 100 # 0) \/ y % 400 = 0

DiasEnMes(y, m) ==
    IF m = 2 THEN (IF EsBisiesto(y) THEN 29 ELSE 28)
    ELSE IF m \in {4, 6, 9, 11} THEN 30 ELSE 31

\* datetime(anio, mes, dia) raises ValueError outside these ranges.
FechaValida(y, m, d) ==
    /\ y \in 1..9999
    /\ m \in 1..12
    /\ d \in 1..DiasEnMes(y, m)

RECURSIVE DiasAntesDeMes(_, _)
DiasAntesDeMes(y, m) ==
    IF m = 1 THEN 0 ELSE DiasAntesDeMes(y, m - 1) + DiasEnMes(y, m - 1)

\* date.toordinal(); a day is the triple <<dia, mes, anio>>.
toordinal(f) ==
    LET y == f[3] - 1
    IN y * 365 + (y \div 4) - (y \div 100) + (y \div 400)
       + DiasAntesDeMes(f[3], f[2]) + f[1]

\* strftime("%d/%m/%Y")
DosDigitos(n) == <<Digitos[((n \div 10) % 10) + 1], Digitos[(n % 10) + 1]>>

strftime_dmy(f) ==
    DosDigitos(f[1]) \o <<"/">> \o DosDigitos(f[2]) \o <<"/">>
    \o DosDigitos(f[3] \div 100) \o DosDigitos(f[3] % 100)

\* The day a text names, as calcular_dias_restantes reads it (lines 22-24):
\* the part before the first blank, three numerals between slashes.  None
\* stands for the exception the function catches.
ParseFecha(texto) ==
    LET partes == split(split(texto, " ")[1], "/")
    IN IF Len(partes) # 3 THEN None
       ELSE LET dia == int(partes[1])
                mes == int(partes[2])
                anio == int(partes[3])
            IN IF IsNone(dia) \/ IsNone(mes) \/ IsNone(anio) THEN None
               ELSE IF ~FechaValida(Val(anio), Val(mes), Val(dia)) THEN None
               ELSE V(<<Val(dia), Val(mes), Val(anio)>>)

\* calcular_dias_restantes(fecha_str) on day h: None, or the whole days left.
calcular_dias_restantes(fecha_str, h) ==
    IF IsNone(fecha_str) \/ Val(fecha_str) = <<>> THEN None
    ELSE LET fecha == ParseFecha(Val(fecha_str))
         IN IF IsNone(fecha) THEN None
            ELSE V(toordinal(Val(fecha)) - toordinal(h))

(***************************************************************************)
(* Business filters (seace_exports.py).                                    *)
(***************************************************************************)
UIT_2026 == 5350
MONTO_MINIMO_8_UIT == 8 * UIT_2026

\* Truth value of a text or of a number: None, "" and 0 are false.
TruthyTexto(v) == ~IsNone(v) /\ v # V("")
TruthyNumero(v) == ~IsNone(v) /\ v # V(0)

\* float(p.get('valor_referencial', 0) or 0)
MontoDe(p) ==
    LET v == Get(p, "valor_referencial", V(0))
    IN IF TruthyNumero(v) THEN Val(v) ELSE 0

\* The comparison of line 38 written as a strict one.
PasaMontoEstricto(p, monto_minimo) == MontoDe(p) > monto_minimo

\* The condition of the comprehension of filtrar_por_monto (line 38).
PasaMonto(p, monto_minimo) == MontoDe(p) >= monto_minimo

filtrar_por_monto(lista, monto_minimo) ==
    SelectSeq(lista, LAMBDA p : PasaMonto(p, monto_minimo))

\* The condition of line 50 with the upper limit left out of the range.
EsUrgenteEstricto(dias, dias_limite) ==
    ~IsNone(dias) /\ 0 <= Val(dias) /\ Val(dias) < dias_limite

\* The condition of filtrar_urgentes (line 50) on the days left.
EsUrgente(dias, dias_limite) ==
    ~IsNone(dias) /\ 0 <= Val(dias) /\ Val(dias) <= dias_limite

DiasDe(p, h) ==
    calcular_dias_restantes(Get(p, "fecha_presentacion_propuestas", None), h)

\* p['dias_restantes'] = dias
ConDias(p, dias) ==
    [k \in DOMAIN p \cup {"dias_restantes"} |->
        IF k = "dias_restantes" THEN dias ELSE p[k]]

\* filtrar_urgentes on day h.  The dicts of the list are written in place, so
\* the result has two parts: the caller's list after the call, and the list
\* returned.
RECURSIVE filtrar_urgentes(_, _, _)
filtrar_urgentes(lista, dias_limite, h) ==
    IF lista = <<>> THEN [lista |-> <<>>, urgentes |-> <<>>]
    ELSE LET p == Head(lista)
             dias == DiasDe(p, h)
             rest == filtrar_urgentes(Tail(lista), dias_limite, h)
         IN IF EsUrgente(dias, dias_limite)
            THEN [lista |-> <<ConDias(p, dias)>> \o rest.lista,
                  urgentes |-> <<ConDias(p, dias)>> \o rest.urgentes]
            ELSE [lista |-> <<p>> \o rest.lista, urgentes |-> rest.urgentes]

\* The test of line 62 without the look-up in the identifiers already seen.
EsNuevoSinVistos(nom, vistos) == TruthyTexto(nom)

\* The test of deduplicar_procesos (line 62) on the identifier read.
EsNuevo(nom, vistos) == TruthyTexto(nom) /\ nom \notin vistos

RECURSIVE DedupLoop(_, _, _)
DedupLoop(lista, vistos, unicos) ==
    IF lista = <<>> THEN unicos
    ELSE LET p == Head(lista)
             nom == Get(p, "nomenclatura", V(""))
         IN IF EsNuevo(nom, vistos)
            THEN DedupLoop(Tail(lista), vistos \cup {nom}, Append(unicos, p))
            ELSE DedupLoop(Tail(lista), vistos, unicos)

deduplicar_procesos(lista) == DedupLoop(lista, {}, <<>>)

(***************************************************************************)
(* Substring and case of the short vocabulary texts (categories, regions,  *)
(* milestone codes), which are kept whole: the pairs <<sub, text>> with    *)
(* sub a proper substring of text, and the lower and upper case forms.     *)
(***************************************************************************)
Subcadenas ==
    {<<"propuesta", "presentacion_propuestas">>,
     <<"consulta", "formulacion_consultas">>,
     <<"obra", "licitacion de obra">>,
     <<"obra", "consultoría de obra">>,
     <<"obra", "obras">>,
     <<"obra", "obra vial">>,
     <<"obra", "obra vial (modificada)">>,
     <<"obra", "obra en cusco">>,
     <<"obra", "obra sin region">>,
     <<"prueba", "entidad de prueba">>,
     <<"prueba", "descripcion de prueba">>,
     <<"LIMA", "LIMA METROPOLITANA">>}

Contiene(texto, sub) == sub = "" \/ sub = texto \/ <<sub, texto>> \in Subcadenas

\* str.lower(), and the ASCII case folding of LIKE.
lower(s) ==
    CASE s = "PRESENTACION_PROPUESTAS" -> "presentacion_propuestas"
      [] s = "FORMULACION_CONSULTAS"   -> "formulacion_consultas"
      [] s = "Licitacion de Obra"      -> "licitacion de obra"
      [] s = "Obra"                    -> "obra"
      [] s = "Consultoría de Obra"     -> "consultoría de obra"
      [] s = "Convocado"               -> "convocado"
      [] s = "Adjudicado"              -> "adjudicado"
      [] s = "ENTIDAD DE PRUEBA"       -> "entidad de prueba"
      [] s = "OTRA ENTIDAD"            -> "otra entidad"
      [] s = "MUNICIPALIDAD A"         -> "municipalidad a"
      [] s = "GOBIERNO REGIONAL B"     -> "gobierno regional b"
      [] s = "ENTIDAD C"               -> "entidad c"
      [] s = "ENTIDAD F"               -> "entidad f"
      [] s = "Descripcion de prueba"   -> "descripcion de prueba"
      [] s = "Obra vial"               -> "obra vial"
      [] s = "Obra vial (modificada)"  -> "obra vial (modificada)"
      [] s = "Obra en Cusco"           -> "obra en cusco"
      [] s = "Obra sin region"         -> "obra sin region"
      [] s = "ENTIDAD G"               -> "entidad g"
      [] s = "Supervision"             -> "supervision"
      [] s = "Servicio"                -> "servicio"
      [] s = "Sin identificador"       -> "sin identificador"
      [] OTHER                         -> s

\* str.upper(), and UPPER() of SQLite.
upper(s) ==
    CASE s = "Lima"   -> "LIMA"
      [] s = "ancash" -> "ANCASH"
      [] s = "todos"  -> "TODOS"
      [] OTHER        -> s

(***************************************************************************)
(* The OCDS feed (seace_ocds.py).  A release is the dict the API returns:  *)
(* a missing key is missing from the function, JSON null is None.          *)
(***************************************************************************)
OCDS_BASE_URL == "https://contratacionesabiertas.oece.gob.pe"

TIPOS_OCDS_MAP ==
    [goods |-> "Bien", works |-> "Obra", services |-> "Servicio",
     consultingServices |-> "Consultoría de Obra"]

TIPOS_INTERNOS_MAP ==
    [obras |-> <<"works">>, servicios |-> <<"services">>,
     consultoria_obras |-> <<"consultingServices">>, bienes |-> <<"goods">>]

EmptyDict == <<>>
EmptyList == <<>>

\* OCDSScraper._extraer_ubicacion; the bare except returns "LIMA".
\* The result is the value returned, which can be None (a null region).
_extraer_ubicacion(release) ==
    LET tender == Get(release, "tender", V(EmptyDict))
    IN IF IsNone(tender) THEN V("LIMA")
       ELSE
       LET addresses == Get(Val(tender), "deliveryAddresses", V(EmptyList))
       IN IF IsNone(addresses) \/ Val(addresses) = EmptyList
          THEN LET parties == Get(release, "parties", V(EmptyList))
                   EsBuyer(party) ==
                       \E k \in 1..Len(Get(party, "roles", <<>>)) :
                           Get(party, "roles", <<>>)[k] = "buyer"
                   buyers == IF IsNone(parties) THEN <<>>
                             ELSE SelectSeq(Val(parties), EsBuyer)
               IN IF IsNone(parties) THEN V("LIMA")
                  ELSE IF buyers # <<>>
                  THEN LET addr == Get(Head(buyers), "address", V(EmptyDict))
                       IN IF IsNone(addr) THEN V("LIMA")
                          ELSE Get(Val(addr), "region",
                                   Get(Val(addr), "locality", V("")))
                  ELSE LET buyer == Get(release, "buyer", V(EmptyDict))
                       IN IF IsNone(buyer) THEN V("LIMA")
                          ELSE LET addr == Get(Val(buyer), "address", V(EmptyDict))
                               IN IF IsNone(addr) THEN V("LIMA")
                                  ELSE Get(Val(addr), "region", V("LIMA"))
          ELSE LET primera == Head(Val(addresses))
               IN IF IsNone(primera) THEN V("LIMA")
                  ELSE Get(Val(primera), "region", V(""))

\* OCDSScraper._extraer_tipo; the bare except returns "works".
_extraer_tipo(release) ==
    LET tender == Get(release, "tender", V(EmptyDict))
    IN IF IsNone(tender) THEN "works"
       ELSE
       LET categoria == Get(Val(tender), "mainProcurementCategory", V(""))
           details == Get(Val(tender), "procurementMethodDetails", V(""))
       IN IF TruthyTexto(categoria) THEN Val(categoria)
          ELSE IF IsNone(details) THEN "works"
          ELSE IF Contiene(lower(Val(details)), "obra") THEN "works"
          ELSE IF Contiene(lower(Val(details)), "consultor") THEN "consultingServices"
          ELSE IF Contiene(lower(Val(details)), "servicio") THEN "services"
          ELSE "works"

\* Calendar steps, for writing the dates of the inputs.
Manana(f) ==
    IF f[1] < DiasEnMes(f[3], f[2]) THEN <<f[1] + 1, f[2], f[3]>>
    ELSE IF f[2] < 12 THEN <<1, f[2] + 1, f[3]>>
    ELSE <<1, 1, f[3] + 1>>

Ayer(f) ==
    IF f[1] > 1 THEN <<f[1] - 1, f[2], f[3]>>
    ELSE IF f[2] > 1 THEN <<DiasEnMes(f[3], f[2] - 1), f[2] - 1, f[3]>>
    ELSE <<31, 12, f[3] - 1>>

RECURSIVE MasDias(_, _)
MasDias(f, d) ==
    IF d = 0 THEN f
    ELSE IF d > 0 THEN MasDias(Manana(f), d - 1)
    ELSE MasDias(Ayer(f), d + 1)

\* An OCDS date-time text of day f, e.g. 2026-12-31T10:00:00Z.
TextoISO(f) ==
    DosDigitos(f[3] \div 100) \o DosDigitos(f[3] % 100) \o <<"-">>
    \o DosDigitos(f[2]) \o <<"-">> \o DosDigitos(f[1])
    \o <<"T", "1", "0", ":", "0", "0", ":", "0", "0", "Z">>

\* Truth value of a text kept as characters.
TruthyCadena(v) == ~IsNone(v) /\ Val(v) # <<>>

\* datetime.fromisoformat on a date-time text: the day YYYY-MM-DD it starts
\* with, or None for ValueError.
fromisoformat(texto) ==
    IF Len(texto) < 10 \/ texto[5] # "-" \/ texto[8] # "-" THEN None
    ELSE LET anio == int(SubSeq(texto, 1, 4))
             mes == int(SubSeq(texto, 6, 7))
             dia == int(SubSeq(texto, 9, 10))
         IN IF IsNone(anio) \/ IsNone(mes) \/ IsNone(dia) THEN None
            ELSE IF ~FechaValida(Val(anio), Val(mes), Val(dia)) THEN None
            ELSE IF Len(texto) > 10 /\ texto[11] # "T" THEN None
            ELSE V(<<Val(dia), Val(mes), Val(anio)>>)

\* Lines 297-305: the start of the tender period, rewritten as DD/MM/YYYY
\* when it parses and left as it is when it does not.
FechaPublicacion(startDate) ==
    IF ~TruthyCadena(startDate) THEN startDate
    ELSE LET dt == fromisoformat(Val(startDate))
         IN IF IsNone(dt) THEN startDate ELSE V(strftime_dmy(Val(dt)))

\* Lines 308-318: the dict fechas after the loop over the milestones.
RECURSIVE FechasDe(_, _)
FechasDe(milestones, fechas) ==
    IF milestones = <<>> THEN fechas
    ELSE LET m == Head(milestones)
             code == lower(Val(Get(m, "code", V(""))))
             due == Get(m, "dueDate", V(<<>>))
             clave == IF Contiene(code, "consulta") THEN "consultas"
                      ELSE IF Contiene(code, "observacion") THEN "observaciones"
                      ELSE IF Contiene(code, "propuesta") \/ Contiene(code, "oferta")
                           THEN "propuestas"
                      ELSE "ninguna"
             nuevas == IF clave = "ninguna" THEN fechas
                       ELSE [k \in DOMAIN fechas \cup {clave} |->
                                IF k = clave THEN due ELSE fechas[k]]
         IN FechasDe(Tail(milestones), nuevas)

status_map ==
    [active |-> "Convocado", complete |-> "Adjudicado",
     cancelled |-> "Cancelado", unsuccessful |-> "Desierto"]

\* The calls inside the try of convertir_a_proceso that raise on the release:
\* a method called on None, or a loop over None.
ConversionFalla(release) ==
    LET tender == Get(release, "tender", V(EmptyDict))
    IN \/ IsNone(tender)
       \/ IsNone(Get(release, "buyer", V(EmptyDict)))
       \/ IsNone(Get(Val(tender), "value", V(EmptyDict)))
       \/ IsNone(Get(Val(tender), "tenderPeriod", V(EmptyDict)))
       \/ IsNone(Get(Val(tender), "milestones", V(EmptyList)))
       \/ \E k \in 1..Len(Val(Get(Val(tender), "milestones", V(EmptyList)))) :
             IsNone(Get(Val(Get(Val(tender), "milestones", V(EmptyList)))[k],
                        "code", V("")))

\* OCDSScraper.convertir_a_proceso followed by ProcesoSEACE.to_dict: None when
\* the conversion fails, else the dict of the 17 fields.
convertir_a_proceso(release) ==
    IF ConversionFalla(release) THEN None
    ELSE
    LET tender == Val(Get(release, "tender", V(EmptyDict)))
        buyer == Val(Get(release, "buyer", V(EmptyDict)))
        ocid == Get(release, "ocid", V(""))
        tender_id == Get(tender, "id", ocid)
        value == Val(Get(tender, "value", V(EmptyDict)))
        amount == Get(value, "amount", V(0))
        valor_ref == IF TruthyNumero(amount) THEN Val(amount) ELSE 0
        periodo == Val(Get(tender, "tenderPeriod", V(EmptyDict)))
        fechas == FechasDe(Val(Get(tender, "milestones", V(EmptyList))), <<>>)
        tipo_ocds == _extraer_tipo(release)
        tipo_interno == IF tipo_ocds \in DOMAIN TIPOS_OCDS_MAP
                        THEN TIPOS_OCDS_MAP[tipo_ocds] ELSE "Obra"
        status == Get(tender, "status", V("active"))
        estado == IF ~IsNone(status) /\ Val(status) \in DOMAIN status_map
                  THEN status_map[Val(status)] ELSE "Convocado"
    IN V([nomenclatura |-> tender_id,
          entidad |-> Get(buyer, "name", V("Sin entidad")),
          descripcion |-> Get(tender, "title", Get(tender, "description", V(""))),
          tipo_objeto |-> V(tipo_interno),
          tipo_procedimiento |-> Get(tender, "procurementMethod", V("")),
          departamento |-> _extraer_ubicacion(release),
          valor_referencial |-> V(valor_ref),
          moneda |-> Get(value, "currency", V("PEN")),
          estado |-> V(estado),
          fecha_publicacion |->
              FechaPublicacion(Get(periodo, "startDate", V(<<>>))),
          fecha_registro_participantes |-> None,
          fecha_consultas |-> Get(fechas, "consultas", None),
          fecha_observaciones |-> Get(fechas, "observaciones", None),
          fecha_integracion_bases |-> None,
          fecha_presentacion_propuestas |-> Get(fechas, "propuestas", None),
          fecha_buena_pro |-> None,
          url_ficha |-> V(<<OCDS_BASE_URL, "/process/", ocid>>)])

\* The releases the feed can answer with.
Dia0 == <<30, 12, 2026>>

Releases ==
    << \* 1: a complete works tender "a" delivered in LIMA
       [ocid |-> V("ocds-a"),
        tender |-> V([id |-> V("a"), title |-> V("Obra vial"),
                      value |-> V([amount |-> V(100), currency |-> V("PEN")]),
                      tenderPeriod |-> V([startDate |-> V(TextoISO(Dia0))]),
                      milestones |-> V(<<[code |-> V("PRESENTACION_PROPUESTAS"),
                                          dueDate |-> V(TextoISO(MasDias(Dia0, 2)))]>>),
                      mainProcurementCategory |-> V("works"),
                      status |-> V("active"),
                      procurementMethod |-> V("open"),
                      deliveryAddresses |-> V(<<V([region |-> V("LIMA")])>>)]),
        buyer |-> V([name |-> V("MUNICIPALIDAD A")])],
       \* 2: a consulting tender "b" published three days later, in the next
       \* year; region from the buyer party
       [ocid |-> V("ocds-b"),
        tender |-> V([id |-> V("b"), description |-> V("Supervision"),
                      value |-> V([amount |-> None]),
                      tenderPeriod |-> V([startDate |-> V(TextoISO(MasDias(Dia0, 3)))]),
                      mainProcurementCategory |-> V("consultingServices"),
                      status |-> V("complete")]),
        parties |-> V(<<[roles |-> <<"supplier">>],
                        [roles |-> <<"buyer">>,
                         address |-> V([region |-> V("ANCASH")])]>>),
        buyer |-> V([name |-> V("GOBIERNO REGIONAL B")])],
       \* 3: neither ocid nor tender id
       [tender |-> V([title |-> V("Sin identificador"),
                      value |-> V([amount |-> V(300)]),
                      procurementMethodDetails |-> V("Licitacion de Obra")]),
        buyer |-> V([name |-> V("ENTIDAD C")])],
       \* 4: "tender": null
       [ocid |-> V("ocds-d"), tender |-> None,
        buyer |-> V([name |-> V("ENTIDAD D")])],
       \* 5: tender "a" seen again with another amount
       [ocid |-> V("ocds-a"),
        tender |-> V([id |-> V("a"), title |-> V("Obra vial (modificada)"),
                      value |-> V([amount |-> V(200), currency |-> V("PEN")]),
                      mainProcurementCategory |-> V("works"),
                      deliveryAddresses |-> V(<<V([region |-> V("LIMA")])>>)]),
        buyer |-> V([name |-> V("MUNICIPALIDAD A")])],
       \* 6: a works tender delivered in CUSCO
       [ocid |-> V("ocds-f"),
        tender |-> V([id |-> V("f"), title |-> V("Obra en Cusco"),
                      value |-> V([amount |-> V(50)]),
                      mainProcurementCategory |-> V("works"),
                      deliveryAddresses |-> V(<<V([region |-> V("CUSCO")])>>)]),
        buyer |-> V([name |-> V("ENTIDAD F")])],
       \* 7: a delivery address with a locality and no region
       [ocid |-> V("ocds-g"),
        tender |-> V([id |-> V("g"), title |-> V("Obra sin region"),
                      value |-> V([amount |-> V(70)]),
                      mainProcurementCategory |-> V("works"),
                      deliveryAddresses |-> V(<<V([locality |-> V("HUARAZ")])>>)]),
        buyer |-> V([name |-> V("ENTIDAD G")])] >>

\* The answers of the API to one page request: an exception raised by
\* session.get or resp.json (timeout, connection error, malformed body), or a
\* status code with the indices into Releases of the page's releases and
\* whether the body has links.next.
Paginas ==
    << [excepcion |-> FALSE, status_code |-> 200, releases |-> <<1, 2>>, next |-> TRUE],
       [excepcion |-> FALSE, status_code |-> 200, releases |-> <<4, 6>>, next |-> TRUE],
       [excepcion |-> FALSE, status_code |-> 200, releases |-> <<3, 4>>, next |-> FALSE],
       [excepcion |-> FALSE, status_code |-> 200, releases |-> <<5, 7>>, next |-> FALSE],
       [excepcion |-> FALSE, status_code |-> 200, releases |-> <<>>, next |-> FALSE],
       [excepcion |-> FALSE, status_code |-> 503, releases |-> <<>>, next |-> FALSE],
       [excepcion |-> TRUE, status_code |-> 0, releases |-> <<>>, next |-> FALSE],
       [excepcion |-> FALSE, status_code |-> 200, releases |-> <<1, 5>>, next |-> FALSE] >>

\* A page after which the loop of _obtener_desde_api asks for the next one.
Continua(pg) ==
    ~pg.excepcion /\ pg.status_code = 200 /\ pg.releases # <<>> /\ pg.next

\* A feed is the sequence of answers to pages 1, 2, ...: every answer but the
\* last asks for more.
Feeds ==
    {f \in SeqsUpTo(1..Len(Paginas), MaxPaginas) :
        /\ f # <<>>
        /\ \A k \in 1..Len(f) : Continua(Paginas[f[k]]) <=> k < Len(f)}

Limites == {1, 500}

DepartamentosDefault == <<"ANCASH", "LIMA">>
DepartamentosLlamados == {DepartamentosDefault, <<"TODOS">>}
TiposObjetoDefault == <<"obras", "consultoria_obras">>

\* descargar_releases 144-150: the OCDS categories of the internal types.
RECURSIVE TiposOcds(_)
TiposOcds(tipos_objeto) ==
    IF tipos_objeto = <<>> THEN <<>>
    ELSE Get(TIPOS_INTERNOS_MAP, lower(Head(tipos_objeto)), <<>>)
         \o TiposOcds(Tail(tipos_objeto))

EnSecuencia(x, sq) == \E k \in 1..Len(sq) : sq[k] = x

\* The for loop over one page (191-207), releases being the indices kept so
\* far.  ubicacion.upper() raises when the region is null.
RECURSIVE PaginaLoop(_, _, _, _, _)
PaginaLoop(pagina, departamentos, tipos_ocds, limite, releases) ==
    IF pagina = <<>> THEN [releases |-> releases, excepcion |-> FALSE]
    ELSE LET release == Releases[Head(pagina)]
             ubicacion == _extraer_ubicacion(release)
             tipo == _extraer_tipo(release)
             filtra == /\ departamentos # <<>>
                       /\ ~\E k \in 1..Len(departamentos) :
                              upper(departamentos[k]) = "TODOS"
         IN IF filtra /\ IsNone(ubicacion)
            THEN [releases |-> releases, excepcion |-> TRUE]
            ELSE IF filtra /\ ~\E k \in 1..Len(departamentos) :
                         Contiene(upper(Val(ubicacion)), upper(departamentos[k]))
            THEN PaginaLoop(Tail(pagina), departamentos, tipos_ocds, limite, releases)
            ELSE IF tipos_ocds # <<>> /\ ~EnSecuencia(tipo, tipos_ocds)
            THEN PaginaLoop(Tail(pagina), departamentos, tipos_ocds, limite, releases)
            ELSE IF Len(releases) + 1 >= limite
            THEN [releases |-> Append(releases, Head(pagina)), excepcion |-> FALSE]
            ELSE PaginaLoop(Tail(pagina), departamentos, tipos_ocds, limite,
                            Append(releases, Head(pagina)))

\* OCDSScraper._obtener_desde_api from page number page on.  fallo tells
\* whether the loop ended on an exception or a status other than 200; the
\* function returns the releases either way.
RECURSIVE _obtener_desde_api(_, _, _, _, _, _)
_obtener_desde_api(feed, page, departamentos, tipos_ocds, limite, releases) ==
    IF ~(Len(releases) < limite) THEN [releases |-> releases, fallo |-> FALSE]
    ELSE LET resp == Paginas[feed[page]]
         IN IF resp.excepcion THEN [releases |-> releases, fallo |-> TRUE]
            ELSE IF resp.status_code # 200 THEN [releases |-> releases, fallo |-> TRUE]
            ELSE IF resp.releases = <<>> THEN [releases |-> releases, fallo |-> FALSE]
            ELSE LET r == PaginaLoop(resp.releases, departamentos, tipos_ocds,
                                     limite, releases)
                 IN IF r.excepcion THEN [releases |-> r.releases, fallo |-> TRUE]
                    ELSE IF ~resp.next THEN [releases |-> r.releases, fallo |-> FALSE]
                    ELSE _obtener_desde_api(feed, page + 1, departamentos,
                                            tipos_ocds, limite, r.releases)

descargar_releases(feed, limite, departamentos, tipos_objeto) ==
    _obtener_desde_api(feed, 1, departamentos, TiposOcds(tipos_objeto), limite, <<>>)

\* The conversion loop of buscar_procesos (390-397): the dicts of the
\* releases that convert, up to limite of them.
RECURSIVE ConvertirLoop(_, _, _)
ConvertirLoop(releases, limite, procesos_) ==
    IF releases = <<>> THEN procesos_
    ELSE LET proceso == convertir_a_proceso(Releases[Head(releases)])
         IN IF IsNone(proceso) THEN ConvertirLoop(Tail(releases), limite, procesos_)
            ELSE IF Len(procesos_) + 1 >= limite THEN Append(procesos_, Val(proceso))
            ELSE ConvertirLoop(Tail(releases), limite, Append(procesos_, Val(proceso)))

\* OCDSScraper.buscar_procesos: the tenders found, with the releases pulled
\* and whether the fetch failed.
buscar_procesos(feed, departamentos, tipos_objeto, limite) ==
    LET d == descargar_releases(feed, limite * 2, departamentos, tipos_objeto)
    IN [procesos |-> ConvertirLoop(d.releases, limite, <<>>),
        releases |-> d.releases, fallo |-> d.fallo]

\* What buscar_procesos returns for each feed and each call, worked out once.
Busquedas ==
    {[feed |-> feed, departamentos |-> departamentos, limite |-> limite,
      b |-> buscar_procesos(feed, departamentos, TiposObjetoDefault, limite)] :
        feed \in Feeds, departamentos \in DepartamentosLlamados, limite \in Limites}

(***************************************************************************)
(* SeaceDB.buscar.                                                         *)
(***************************************************************************)
\* Characters of the date texts in the order of their codes, as the BINARY
\* collation compares them.
Alfabeto ==
    <<" ", "-", "/", "0", "1", "2", "3", "4", "5", "6", "7", "8", "9", ":",
      "T", "Z">>

Codigos(texto) ==
    [i \in 1..Len(texto) |-> CHOOSE k \in 1..Len(Alfabeto) : Alfabeto[k] = texto[i]]

\* column LIKE '%sub%': NULL never matches, the match ignores ASCII case.
Like(columna, sub) ==
    ~IsNone(columna) /\ Contiene(lower(Val(columna)), lower(sub))

tipo_map ==
    [obras |-> "Obra", servicios |-> "Servicio",
     consultoria_obras |-> "Consultoría de Obra"]

\* The WHERE clause built at lines 232-266 for the parameters q, the clock
\* reading t.
Where(r, q, t) ==
    /\ TruthyTexto(q.departamento) =>
           /\ ~IsNone(r.departamento)
           /\ upper(Val(r.departamento)) = upper(Val(q.departamento))
    /\ TruthyTexto(q.tipo_objeto) =>
           \/ Like(r.tipo_objeto, Val(q.tipo_objeto))
           \/ Like(r.tipo_objeto,
                   Get(tipo_map, lower(Val(q.tipo_objeto)), Val(q.tipo_objeto)))
    /\ TruthyTexto(q.estado) => Like(r.estado, Val(q.estado))
    /\ TruthyTexto(q.texto) =>
           \/ Like(r.nomenclatura, Val(q.texto))
           \/ Like(r.entidad, Val(q.texto))
           \/ Like(r.descripcion, Val(q.texto))
    /\ q.solo_frescos =>
           TextGe(Val(r.actualizado_en),
                  isoformat(t - timedelta_hours(q.horas_frescura)))

\* ORDER BY fecha_publicacion DESC, actualizado_en DESC: r comes before s.
\* NULL is the smallest value.
VaAntes(r, s) ==
    IF r.fecha_publicacion # s.fecha_publicacion
    THEN /\ ~IsNone(r.fecha_publicacion)
         /\ \/ IsNone(s.fecha_publicacion)
            \/ TextLt(Codigos(Val(s.fecha_publicacion)),
                      Codigos(Val(r.fecha_publicacion)))
    ELSE TextLt(Val(s.actualizado_en), Val(r.actualizado_en))

RECURSIVE Ordenar(_)
Ordenar(filas) ==
    IF filas = {} THEN <<>>
    ELSE LET primera == CHOOSE r \in filas :
                            \A s \in filas \ {r} : ~VaAntes(s, r)
         IN <<primera>> \o Ordenar(filas \ {primera})

buscar(tabla, q, t) ==
    LET filas == Ordenar({r \in tabla : Where(r, q, t)})
    IN SubSeq(filas, 1, IF Len(filas) < q.limite THEN Len(filas) ELSE q.limite)

\* The calls of buscar: the defaults with short freshness windows, the calls
\* of seace_cron.py 97 and seace_db.py 420, a one-row page, a call with
\* every filter, and a call by category alone.
Consultas ==
    << [departamento |-> None, tipo_objeto |-> None, estado |-> None,
        texto |-> None, limite |-> 50, solo_frescos |-> TRUE, horas_frescura |-> 1],
       [departamento |-> None, tipo_objeto |-> None, estado |-> None,
        texto |-> None, limite |-> 50, solo_frescos |-> TRUE, horas_frescura |-> 0],
       [departamento |-> None, tipo_objeto |-> None, estado |-> None,
        texto |-> None, limite |-> 500, solo_frescos |-> FALSE, horas_frescura |-> 12],
       [departamento |-> V("ANCASH"), tipo_objeto |-> None, estado |-> None,
        texto |-> None, limite |-> 50, solo_frescos |-> FALSE, horas_frescura |-> 12],
       [departamento |-> None, tipo_objeto |-> None, estado |-> None,
        texto |-> None, limite |-> 1, solo_frescos |-> FALSE, horas_frescura |-> 12],
       [departamento |-> V("Lima"), tipo_objeto |-> V("obras"),
        estado |-> V("convocado"), texto |-> V("obra"), limite |-> 50,
        solo_frescos |-> TRUE, horas_frescura |-> 12],
       [departamento |-> None, tipo_objeto |-> V("obras"), estado |-> None,
        texto |-> None, limite |-> 50, solo_frescos |-> FALSE, horas_frescura |-> 12] >>

\* Ages handed to limpiar_datos_antiguos, in days.
Dias == {0, 1, 30}

timedelta_days(d) == d * 24 * TicksPorHora

\* The rows of tabla that limpiar_datos_antiguos deletes: actualizado_en <= ?
\* in place of <.
ViejosInclusive(tabla, fecha_limite) ==
    {r \in tabla : ~TextLt(fecha_limite, Val(r.actualizado_en))}

\* DELETE FROM procesos WHERE actualizado_en < ?
Viejos(tabla, fecha_limite) ==
    {r \in tabla : TextLt(Val(r.actualizado_en), fecha_limite)}

\* An update of the metadata that leaves total_procesos alone.
actualizar_sin_total(meta, tabla, estado, mensaje, duracion, t) ==
    {IF m.id # 1 THEN m
     ELSE [m EXCEPT !.estado = V(estado),
                    !.ultima_sincronizacion = V(isoformat(t))] : m \in meta}

\* SeaceDB.actualizar_sync_metadata at clock reading t: the UPDATE of the row
\* with id 1.  mensaje is an Optional text, duracion an Optional number.
actualizar_sync_metadata(meta, tabla, estado, mensaje, duracion, t) ==
    {IF m.id # 1 THEN m
     ELSE [m EXCEPT !.estado = V(estado),
                    !.ultima_sincronizacion = V(isoformat(t)),
                    !.mensaje = IF ~IsNone(mensaje) /\ Val(mensaje) # <<"">>
                                THEN mensaje ELSE @,
                    !.duracion_segundos = IF IsNone(duracion) THEN @
                                          ELSE Val(duracion),
                    !.total_procesos = Cardinality(tabla)] : m \in meta}

\* The calls of actualizar_sync_metadata: those of seace_scraper.py 908, 944
\* and 976, and one with an empty message.
Actualizaciones ==
    << [estado |-> "sincronizando", mensaje |-> V(<<"Búsqueda en progreso...">>),
        duracion |-> None],
       [estado |-> "completado", mensaje |-> V(<<"Sincronizados ", 2, " procesos (", "demo", ")">>),
        duracion |-> V(3)],
       [estado |-> "error", mensaje |-> V(<<"database is locked">>), duracion |-> None],
       [estado |-> "error", mensaje |-> V(<<"">>), duracion |-> None] >>

\* The clock is followed for MaxTime ticks from the start of a day: k more
\* readings fit.
EnHorario(k) == (now % timedelta_days(1)) + k <= MaxTime

\* Idle times that take the clock to the next day.
Esperas == {timedelta_days(1) - 1, timedelta_days(1)}

(***************************************************************************)
(* Threads of the web process: the loop thread of SEACEAutoSearcher and    *)
(* the request threads, each running one operation against the store.     *)
(***************************************************************************)
NumHilos == 2
Hilos == 1..NumHilos

\* Threads 1 and 2 are the loop thread or a request (buscar_ahora, a sync, a
\* read), the others requests that sync or read.
OperacionesDe(h) ==
    IF h <= 2 THEN {"_ejecutar_busqueda", "sincronizar_sqlite", "buscar"}
    ELSE {"sincronizar_sqlite", "buscar"}

\* The SeaceDB instance an operation works on: the singleton of
\* get_seace_db() (instance 0), or the SeaceDB() a request handler makes for
\* itself (app.py 1885).
InstanciaDe(h, op) == IF op = "buscar" THEN h ELSE 0

\* The module-level lock of seace_db.py, among the lock objects 0, 1, ...
_db_lock == 0

Candados == 0..(NumHilos + 1)

\* A lock of its own for every instance.
CandadoPropio(db) == db + 1

\* The lock _get_connection takes for instance db: the module's lock, whatever
\* the instance.
CandadoDe(db) == _db_lock

\* The stages of sincronizar_sqlite in the order it runs them: the fetch
\* (buscar_procesos), then the two store transactions.
EtapasSyncInvertidas ==
    <<"guardar_procesos_batch", "fetch", "actualizar_sync_metadata">>

EtapasSync == <<"fetch", "guardar_procesos_batch", "actualizar_sync_metadata">>

\* The feeds the racing sync runs pull: tender "a" twice, tenders "a" and "b",
\* and a request that times out.
FeedsHilos == {<<8>>, <<1, 5>>, <<7>>}

BusquedasHilos ==
    {[feed |-> feed,
      b |-> buscar_procesos(feed, DepartamentosDefault, TiposObjetoDefault, 500)] :
        feed \in FeedsHilos}

\* The queries of SEACEScraper.buscar_procesos (seace_scraper.py 157-165) in
\* the order of its two loops.
ConsultasScraper ==
    LET tipos_objeto == <<"obras", "servicios", "consultoria_obras">>
        departamentos == <<"ANCASH", "LIMA">>
    IN [k \in 1..(Len(tipos_objeto) * Len(departamentos)) |->
           [departamento |-> V(departamentos[((k - 1) % Len(departamentos)) + 1]),
            tipo_objeto |-> V(tipos_objeto[((k - 1) \div Len(departamentos)) + 1]),
            estado |-> V("convocado"), texto |-> None, limite |-> 50,
            solo_frescos |-> FALSE, horas_frescura |-> 24 * 7]]

\* SEACEScraper._dict_a_proceso, ProcesoSEACE.to_dict and d['fuente'] = fuente
\* on a row the store returned.
ComoDatos(d, fuente) ==
    [c \in ColumnasDato |->
        CASE c = "valor_referencial" -> V(MontoDe(d))
          [] c = "fuente"            -> V(fuente)
          [] c = "moneda"            -> Get(d, c, V("PEN"))
          [] c \in {"nomenclatura", "entidad", "descripcion", "tipo_objeto",
                    "tipo_procedimiento", "departamento", "estado",
                    "fecha_publicacion"} -> Get(d, c, V(""))
          [] OTHER                   -> Get(d, c, None)]

\* The locals of a thread that runs nothing yet.
LocalInicial ==
    [op |-> "ninguna", db |-> 0, inicio |-> 0, etapa |-> 0, tx |-> "",
     antes |-> None, error |-> FALSE, lote |-> <<>>, i |-> 0, guardados |-> 0,
     k |-> 0, vuelta |-> 0, filas |-> <<>>, escritas |-> {}, marco |-> FALSE,
     saltada |-> FALSE, transacciones |-> 0, avisos |-> 0, fallo |-> FALSE]

(***************************************************************************)
(* State after construction: SeaceDB._init_db on a new file.               *)
(***************************************************************************)
MetaInicial ==
    [id |-> 1, ultima_sincronizacion |-> None, total_procesos |-> 0,
     duracion_segundos |-> 0, estado |-> V("pendiente"),
     mensaje |-> V(<<"Nunca sincronizado">>)]

UltInicial ==
    [op |-> "ninguna", lote |-> <<>>, antes |-> {}, guardados |-> 0, t |-> 0,
     fallo |-> FALSE]

ResultadoInicial ==
    [corrida |-> FALSE]

ConsultaInicial ==
    [hecha |-> FALSE]

LlamadaInicial ==
    [op |-> "ninguna", arg |-> 0]

DiariaInicial ==
    [corrida |-> FALSE]

Init ==
    /\ procesos = {}
    /\ sync_metadata = {MetaInicial}
    /\ now = 0
    /\ ult = UltInicial
    /\ resultado = ResultadoInicial
    /\ consulta = ConsultaInicial
    /\ entrada = <<>>
    /\ hoy = <<30, 12, 2026>>
    /\ llamada = LlamadaInicial
    /\ salida = <<>>
    /\ diaria = DiariaInicial
    /\ locks = [c \in Candados |-> 0]
    /\ pc = [h \in Hilos |-> "idle"]
    /\ local = [h \in Hilos |-> LocalInicial]
    /\ _sincronizando = FALSE
    /\ _ultimo_resultado = {}
    /\ confirmado = {}

(***************************************************************************)
(* Store operations.  Every reading of the clock is later than the one     *)
(* before it: a reading is separated from the next by an SQL statement.    *)
(***************************************************************************)
\* SeaceDB.guardar_proceso(Procesos[i]).  The except clause swallows the
\* error, the connection commits either way.
GuardarProceso(i) ==
    /\ EnHorario(1)
    /\ LET fila == Fila(Procesos[i], now)
           ok == ~ViolaNotNull(fila)
       IN /\ procesos' = IF ok THEN InsertOrReplace(procesos, fila) ELSE procesos
          /\ ult' = [op |-> "guardar_proceso", lote |-> <<i>>, antes |-> procesos,
                     guardados |-> IF ok THEN 1 ELSE 0, t |-> now, fallo |-> FALSE]
    /\ now' = now + 1
    /\ resultado' = ResultadoInicial
    /\ consulta' = ConsultaInicial
    /\ UNCHANGED <<sync_metadata, entrada, hoy, llamada, salida, diaria, hilos>>

\* SeaceDB.guardar_procesos_batch(the dicts of lote), one transaction.
GuardarProcesosBatch(lote) ==
    /\ EnHorario(Len(lote))
    /\ LET r == BatchLoop(procesos, DictsDe(lote), now)
       IN /\ procesos' = r.tabla
          /\ ult' = [op |-> "guardar_procesos_batch", lote |-> lote,
                     antes |-> procesos, guardados |-> r.guardados, t |-> now,
                     fallo |-> FALSE]
    /\ now' = now + Len(lote)
    /\ resultado' = ResultadoInicial
    /\ consulta' = ConsultaInicial
    /\ UNCHANGED <<sync_metadata, entrada, hoy, llamada, salida, diaria, hilos>>

\* SeaceDB.limpiar_datos_antiguos(dias).
LimpiarDatosAntiguos(dias) ==
    /\ EnHorario(1)
    /\ LET fecha_limite == isoformat(now - timedelta_days(dias))
           viejos == Viejos(procesos, fecha_limite)
       IN /\ procesos' = procesos \ viejos
          /\ ult' = [op |-> "limpiar_datos_antiguos", lote |-> <<dias>>,
                     antes |-> procesos, guardados |-> Cardinality(viejos),
                     t |-> now, fallo |-> FALSE]
    /\ now' = now + 1
    /\ resultado' = ResultadoInicial
    /\ consulta' = ConsultaInicial
    /\ UNCHANGED <<sync_metadata, entrada, hoy, llamada, salida, diaria, hilos>>

\* SeaceDB.buscar with the parameters Consultas[k]; consulta keeps the call
\* and the rows it returned until the next operation.  The clock is read only
\* for the freshness limit.
Buscar(k) ==
    /\ Consultas[k].solo_frescos => EnHorario(1)
    /\ consulta' = [hecha |-> TRUE, k |-> k, t |-> now,
                    filas |-> buscar(procesos, Consultas[k], now)]
    /\ now' = IF Consultas[k].solo_frescos THEN now + 1 ELSE now
    /\ UNCHANGED <<procesos, sync_metadata, ult, resultado, entrada, hoy,
                   llamada, salida, diaria, hilos>>

\* OCDSScraper.sincronizar_sqlite(departamentos, tipos_objeto, limite) against
\* the feed.  The clock is read at the start, once per row saved, for the
\* duration handed to the metadata, inside actualizar_sync_metadata, and in
\* the finally clause.  b is what buscar_procesos returns for the call.  No
\* statement of the try raises past the calls modelled here, which catch
\* their own errors.
SincronizarSqlite(feed, departamentos, limite, b) ==
    LET inicio == now
        n == Len(b.procesos)
        datos_guardar == [i \in 1..n |->
                            [c \in DOMAIN b.procesos[i] \cup {"fuente"} |->
                                IF c = "fuente" THEN V("ocds") ELSE b.procesos[i][c]]]
        r == BatchLoop(procesos, datos_guardar, now + 1)
    IN IF n = 0
       THEN /\ EnHorario(2)
            /\ resultado' = [corrida |-> TRUE, exito |-> FALSE, procesados |-> 0,
                             guardados |-> 0, errores |-> 0,
                             duracion_segundos |-> (now + 1) - inicio,
                             mensaje |-> <<"No se encontraron procesos en OCDS">>]
            /\ ult' = [op |-> "sincronizar_sqlite", lote |-> b.releases,
                       antes |-> procesos, guardados |-> 0, t |-> inicio,
                       fallo |-> b.fallo]
            /\ now' = now + 2
            /\ consulta' = ConsultaInicial
            /\ UNCHANGED <<procesos, sync_metadata, entrada, hoy, llamada, salida, diaria, hilos>>
       ELSE /\ EnHorario(n + 4)
            /\ procesos' = r.tabla
            /\ sync_metadata' =
                   actualizar_sync_metadata(sync_metadata, r.tabla, "completado",
                       V(<<"Sincronizados ", r.guardados, " procesos desde OCDS">>),
                       V((now + n + 1) - inicio), now + n + 2)
            /\ resultado' = [corrida |-> TRUE, exito |-> TRUE, procesados |-> n,
                             guardados |-> r.guardados, errores |-> 0,
                             duracion_segundos |-> (now + n + 3) - inicio,
                             mensaje |-> <<"Sincronizados ", r.guardados,
                                           " procesos exitosamente">>]
            /\ ult' = [op |-> "sincronizar_sqlite", lote |-> b.releases,
                       antes |-> procesos, guardados |-> r.guardados, t |-> inicio,
                       fallo |-> b.fallo]
            /\ now' = now + n + 4
            /\ consulta' = ConsultaInicial
            /\ UNCHANGED <<entrada, hoy, llamada, salida, diaria, hilos>>

\* SeaceDB.actualizar_sync_metadata with the arguments Actualizaciones[k].
ActualizarSyncMetadata(k) ==
    /\ EnHorario(1)
    /\ sync_metadata' =
           actualizar_sync_metadata(sync_metadata, procesos,
               Actualizaciones[k].estado, Actualizaciones[k].mensaje,
               Actualizaciones[k].duracion, now)
    /\ ult' = [op |-> "actualizar_sync_metadata", lote |-> <<k>>,
               antes |-> procesos, guardados |-> 0, t |-> now, fallo |-> FALSE]
    /\ now' = now + 1
    /\ resultado' = ResultadoInicial
    /\ consulta' = ConsultaInicial
    /\ UNCHANGED <<procesos, entrada, hoy, llamada, salida, diaria, hilos>>

\* A long idle time, once.
Esperar(dt) ==
    /\ now < timedelta_days(1)
    /\ ((now + dt) % timedelta_days(1)) <= MaxTime
    /\ now' = now + dt
    /\ consulta' = ConsultaInicial
    /\ UNCHANGED <<procesos, sync_metadata, ult, resultado, entrada, hoy,
                   llamada, salida, diaria, hilos>>

\* Time passing with nothing running.
Tick ==
    /\ EnHorario(1)
    /\ now' = now + 1
    /\ consulta' = ConsultaInicial
    /\ UNCHANGED <<procesos, sync_metadata, ult, resultado, entrada, hoy,
                   llamada, salida, diaria, hilos>>

(***************************************************************************)
(* The daily pipeline (seace_cron.py).                                     *)
(***************************************************************************)
MaxTimeDiaria == 8

TiposDiaria == <<"obras", "consultoria_obras", "servicios">>

\* What buscar_procesos returns to the pipeline's sync call for each feed.
BusquedasDiarias ==
    {[feed |-> feed,
      b |-> buscar_procesos(feed, DepartamentosDefault, TiposDiaria, 500)] :
        feed \in Feeds}

\* OCDSScraper.sincronizar_sqlite on table tabla and metadata meta, inicio
\* being its first reading of the clock and b what buscar_procesos returns:
\* the table and the metadata after the run, the report, and the next reading
\* of the clock.
sincronizar_sqlite(tabla, meta, b, inicio) ==
    LET n == Len(b.procesos)
        datos_guardar == [i \in 1..n |->
                            [c \in DOMAIN b.procesos[i] \cup {"fuente"} |->
                                IF c = "fuente" THEN V("ocds") ELSE b.procesos[i][c]]]
        r == BatchLoop(tabla, datos_guardar, inicio + 1)
    IN IF n = 0
       THEN [procesos |-> tabla, sync_metadata |-> meta, now |-> inicio + 2,
             resultado |->
                 [corrida |-> TRUE, exito |-> FALSE, procesados |-> 0,
                  guardados |-> 0, errores |-> 0, duracion_segundos |-> 1,
                  mensaje |-> <<"No se encontraron procesos en OCDS">>]]
       ELSE [procesos |-> r.tabla,
             sync_metadata |->
                 actualizar_sync_metadata(meta, r.tabla, "completado",
                     V(<<"Sincronizados ", r.guardados, " procesos desde OCDS">>),
                     V(n + 1), inicio + n + 2),
             now |-> inicio + n + 4,
             resultado |->
                 [corrida |-> TRUE, exito |-> TRUE, procesados |-> n,
                  guardados |-> r.guardados, errores |-> 0,
                  duracion_segundos |-> n + 3,
                  mensaje |-> <<"Sincronizados ", r.guardados,
                                " procesos exitosamente">>]]

RECURSIVE SumaMontos(_)
SumaMontos(lista) ==
    IF lista = <<>> THEN 0 ELSE MontoDe(Head(lista)) + SumaMontos(Tail(lista))

\* generar_resumen_diario on day h, its clock reading being t.  The counts by
\* type and by region are left out.
generar_resumen_diario(lista, h, t) ==
    LET u3 == filtrar_urgentes(lista, 3, h)
        u7 == filtrar_urgentes(u3.lista, 7, h)
    IN [fecha |-> isoformat(t), total_procesos |-> Len(lista),
        monto_total |-> SumaMontos(lista),
        urgentes |-> Len(u3.urgentes),
        proximos_7_dias |-> Len(u7.urgentes) - Len(u3.urgentes)]

\* generar_mensaje_whatsapp raises on an urgent tender whose entidad is None:
\* p.get('entidad', 'N/D')[:50] (seace_exports.py 114), for the first five.
MensajeFalla(urgentes) ==
    \E i \in 1..Len(urgentes) :
        i <= 5 /\ IsNone(Get(urgentes[i], "entidad", V("N/D")))

\* What enviar_whatsapp_evolution returns: the credentials are not set, the
\* message was sent, or the request failed.  It raises nothing.
Envios ==
    {[enviado |-> FALSE, razon |-> "Credenciales no configuradas"],
     [enviado |-> TRUE, razon |-> ""],
     [enviado |-> FALSE, razon |-> "error"]}

\* ejecutar_sincronizacion_diaria against the feed, b being what
\* buscar_procesos returns to its sync call and envio what the WhatsApp call
\* returns if it is made.  The clock is read for resultado['fecha'], by the
\* sync run, and for the summary's fecha; the calendar day the filters read
\* is hoy.
EjecutarSincronizacionDiaria(feed, b, envio) ==
    LET s == sincronizar_sqlite(procesos, sync_metadata, b, now + 1)
        filas == buscar(s.procesos, Consultas[3], s.now)
        unicos == deduplicar_procesos(filas)
        procesos_filtrados == filtrar_por_monto(unicos, MONTO_MINIMO_8_UIT)
        u == filtrar_urgentes(procesos_filtrados, 3, hoy)
        resumen == generar_resumen_diario(u.lista, hoy, s.now)
        falla == u.urgentes # <<>> /\ MensajeFalla(u.urgentes)
    IN /\ s.now + 1 <= MaxTimeDiaria
       /\ (u.urgentes = <<>> \/ falla) =>
              envio = [enviado |-> FALSE, razon |-> "Credenciales no configuradas"]
       /\ procesos' = s.procesos
       /\ sync_metadata' = s.sync_metadata
       /\ resultado' = s.resultado
       /\ ult' = [op |-> "sincronizar_sqlite", lote |-> b.releases,
                  antes |-> procesos, guardados |-> s.resultado.guardados,
                  t |-> now + 1, fallo |-> b.fallo]
       /\ consulta' = [hecha |-> TRUE, k |-> 3, t |-> s.now, filas |-> filas]
       /\ diaria' =
              [corrida |-> TRUE, fecha |-> isoformat(now),
               exito |-> ~falla, sync_result |-> s.resultado,
               total_original |-> Len(unicos),
               total_filtrado |-> Len(procesos_filtrados),
               urgentes_count |-> Len(u.urgentes),
               resumen |-> resumen,
               whatsapp |->
                   IF falla THEN None
                   ELSE IF u.urgentes = <<>>
                   THEN V([enviado |-> FALSE, razon |-> "Sin procesos urgentes"])
                   ELSE V(envio)]
       /\ now' = s.now + 1
       /\ UNCHANGED <<entrada, hoy, llamada, salida, hilos>>

Next ==
    \/ \E i \in IdxProcesos : GuardarProceso(i)
    \/ \E lote \in Lotes : GuardarProcesosBatch(lote)
    \/ \E dias \in Dias : LimpiarDatosAntiguos(dias)
    \/ \E k \in 1..Len(Consultas) : Buscar(k)
    \/ \E s \in Busquedas :
           SincronizarSqlite(s.feed, s.departamentos, s.limite, s.b)
    \/ Tick

Spec == Init /\ [][Next]_vars

\* The store used on its own over two days: single writes, purges and
\* metadata updates.
NextAlmacen ==
    \/ \E i \in IdxProcesos : GuardarProceso(i)
    \/ \E dias \in Dias : LimpiarDatosAntiguos(dias)
    \/ \E k \in 1..Len(Actualizaciones) : ActualizarSyncMetadata(k)
    \/ \E dt \in Esperas : Esperar(dt)

SpecAlmacen == Init /\ [][NextAlmacen]_vars

\* The daily pipeline run on a store that other channels write to.
NextDiaria ==
    \/ \E i \in IdxProcesos : GuardarProceso(i)
    \/ \E s \in BusquedasDiarias : \E envio \in Envios :
           EjecutarSincronizacionDiaria(s.feed, s.b, envio)

SpecDiaria == Init /\ [][NextDiaria]_vars

(***************************************************************************)
(* The operations run by threads, one step per statement that another      *)
(* thread can tell apart: taking the lock, the statements of a             *)
(* transaction, leaving the with block.  A write of sync_metadata can      *)
(* raise (sqlite3.OperationalError: the file is locked by another process, *)
(* the disk is full), which falla stands for.                              *)
(***************************************************************************)
\* What the threads leave alone.
otros == <<ult, resultado, consulta, entrada, hoy, llamada, salida, diaria>>

\* Where a sync run is when it starts stage number e of etapas.
EnEtapa(l, etapas, e) ==
    IF e > Len(etapas)
    THEN [pc |-> "fin", l |-> [l EXCEPT !.etapa = e, !.tx = ""]]
    ELSE IF etapas[e] = "fetch"
    THEN [pc |-> "fetch", l |-> [l EXCEPT !.etapa = e, !.tx = ""]]
    ELSE [pc |-> "entrar", l |-> [l EXCEPT !.etapa = e, !.tx = etapas[e]]]

\* A request handler or the loop thread calls op on thread h.
Llamar(h, op) ==
    /\ pc[h] = "idle"
    /\ LET l == [LocalInicial EXCEPT !.op = op, !.db = InstanciaDe(h, op),
                                     !.inicio = now]
           sync == EnEtapa(l, EtapasSync, 1)
       IN IF op = "buscar"
          THEN /\ pc' = [pc EXCEPT ![h] = "entrar"]
               /\ local' = [local EXCEPT ![h] = [l EXCEPT !.tx = "_init_db"]]
          ELSE IF op = "sincronizar_sqlite"
          THEN /\ pc' = [pc EXCEPT ![h] = sync.pc]
               /\ local' = [local EXCEPT ![h] = sync.l]
          ELSE /\ pc' = [pc EXCEPT ![h] = "check"]
               /\ local' = [local EXCEPT ![h] = l]
    /\ UNCHANGED <<procesos, sync_metadata, now, locks, _sincronizando,
                   _ultimo_resultado, confirmado, otros>>

\* sincronizar_sqlite 435-443: buscar_procesos against the API, b being what
\* it returns; the run returns at once when it found nothing.
Fetch(h, b) ==
    /\ pc[h] = "fetch"
    /\ LET n == Len(b.procesos)
           datos_guardar == [j \in 1..n |->
                               [c \in DOMAIN b.procesos[j] \cup {"fuente"} |->
                                   IF c = "fuente" THEN V("ocds")
                                   ELSE b.procesos[j][c]]]
           l == [local[h] EXCEPT !.lote = datos_guardar]
           sig == EnEtapa(l, EtapasSync, l.etapa + 1)
       IN IF n = 0
          THEN /\ pc' = [pc EXCEPT ![h] = "fin"]
               /\ local' = [local EXCEPT ![h] = l]
          ELSE /\ pc' = [pc EXCEPT ![h] = sig.pc]
               /\ local' = [local EXCEPT ![h] = sig.l]
    /\ UNCHANGED <<procesos, sync_metadata, now, locks, _sincronizando,
                   _ultimo_resultado, confirmado, otros>>

\* _get_connection 33-35: with _db_lock, then sqlite3.connect.
Entrar(h) ==
    /\ pc[h] = "entrar"
    /\ locks[CandadoDe(local[h].db)] = 0
    /\ locks' = [locks EXCEPT ![CandadoDe(local[h].db)] = h]
    /\ pc' = [pc EXCEPT ![h] = "cuerpo"]
    /\ local' = [local EXCEPT
                    ![h].antes = V([procesos |-> procesos,
                                    sync_metadata |-> sync_metadata]),
                    ![h].error = FALSE,
                    ![h].i = 1,
                    ![h].transacciones = @ + 1]
    /\ UNCHANGED <<procesos, sync_metadata, now, _sincronizando,
                   _ultimo_resultado, confirmado, otros>>

\* The body of _init_db on a file that has its tables: the initial
\* sync_metadata row is inserted only into an empty table.
CuerpoInitDb(h) ==
    /\ pc[h] = "cuerpo"
    /\ local[h].tx = "_init_db"
    /\ sync_metadata' = IF sync_metadata = {} THEN {MetaInicial} ELSE sync_metadata
    /\ pc' = [pc EXCEPT ![h] = "salir"]
    /\ UNCHANGED <<procesos, now, locks, local, _sincronizando,
                   _ultimo_resultado, confirmado, otros>>

\* The body of buscar: the SELECT of the request handlers (Consultas[3]), or
\* query number k of SEACEScraper.buscar_procesos, whose rows are appended to
\* resultados.
CuerpoBuscar(h) ==
    /\ pc[h] = "cuerpo"
    /\ local[h].tx = "buscar"
    /\ LET l == local[h]
           q == IF l.op = "buscar" THEN Consultas[3] ELSE ConsultasScraper[l.k]
           rows == buscar(procesos, q, now)
       IN local' = [local EXCEPT
                       ![h].filas = IF l.op = "buscar" THEN rows
                                    ELSE l.filas \o rows]
    /\ pc' = [pc EXCEPT ![h] = "salir"]
    /\ UNCHANGED <<procesos, sync_metadata, now, locks, _sincronizando,
                   _ultimo_resultado, confirmado, otros>>

\* One turn of the loop of guardar_procesos_batch (166-200): row number i of
\* the batch, written in place, or an error of sqlite3 (falla) that ends the
\* body; the with block is left after the last row.
CuerpoBatch(h, falla) ==
    /\ pc[h] = "cuerpo"
    /\ local[h].tx = "guardar_procesos_batch"
    /\ LET l == local[h]
       IN IF l.i > Len(l.lote)
          THEN /\ pc' = [pc EXCEPT ![h] = "salir"]
               /\ UNCHANGED <<procesos, now, local>>
          ELSE IF falla
          THEN /\ pc' = [pc EXCEPT ![h] = "salir"]
               /\ local' = [local EXCEPT ![h].error = TRUE]
               /\ UNCHANGED <<procesos, now>>
          ELSE LET fila == Fila(l.lote[l.i], now)
                   ok == ~ViolaNotNull(fila)
               IN /\ procesos' = IF ok THEN InsertOrReplace(procesos, fila)
                                  ELSE procesos
                  /\ now' = now + 1
                  /\ local' = [local EXCEPT
                                  ![h].i = @ + 1,
                                  ![h].guardados = IF ok THEN @ + 1 ELSE @,
                                  ![h].escritas = IF ok THEN @ \cup {fila} ELSE @]
                  /\ pc' = [pc EXCEPT ![h] =
                               IF l.i = Len(l.lote) THEN "salir" ELSE "cuerpo"]
    /\ UNCHANGED <<sync_metadata, locks, _sincronizando, _ultimo_resultado,
                   confirmado, otros>>

\* The arguments of the calls of actualizar_sync_metadata: sincronizar_sqlite
\* 460-464, _ejecutar_busqueda 908 and 944-948.
ArgumentosMeta(l) ==
    IF l.op = "sincronizar_sqlite"
    THEN [estado |-> "completado",
          mensaje |-> V(<<"Sincronizados ", l.guardados, " procesos desde OCDS">>),
          duracion |-> V(now - l.inicio)]
    ELSE IF l.vuelta = 0
    THEN Actualizaciones[1]
    ELSE [estado |-> "completado",
          mensaje |-> V(<<"Sincronizados ", l.guardados, " procesos (",
                          IF l.vuelta = 1 THEN "sqlite_cache" ELSE "demo", ")">>),
          duracion |-> V(now - l.inicio)]

\* The body of actualizar_sync_metadata.
CuerpoMeta(h, falla) ==
    /\ pc[h] = "cuerpo"
    /\ local[h].tx = "actualizar_sync_metadata"
    /\ LET a == ArgumentosMeta(local[h])
       IN sync_metadata' =
              IF falla THEN sync_metadata
              ELSE actualizar_sync_metadata(sync_metadata, procesos, a.estado,
                                            a.mensaje, a.duracion, now)
    /\ now' = now + 1
    /\ local' = [local EXCEPT ![h].error = falla]
    /\ pc' = [pc EXCEPT ![h] = "salir"]
    /\ UNCHANGED <<procesos, locks, _sincronizando, _ultimo_resultado,
                   confirmado, otros>>

\* Where the operation goes on after leaving the with block of transaction
\* l.tx, l.error telling whether its body raised.
Despues(l) ==
    IF l.op = "buscar"
    THEN IF l.tx = "_init_db"
         THEN [pc |-> "entrar", l |-> [l EXCEPT !.tx = "buscar"]]
         ELSE [pc |-> "fin", l |-> [l EXCEPT !.tx = "", !.fallo = l.error]]
    ELSE IF l.op = "sincronizar_sqlite"
    THEN IF l.error
         THEN [pc |-> "fin", l |-> [l EXCEPT !.tx = "", !.fallo = TRUE]]
         ELSE EnEtapa(l, EtapasSync, l.etapa + 1)
    ELSE \* _ejecutar_busqueda
    IF l.tx = "actualizar_sync_metadata" /\ l.vuelta = 0
    THEN \* 905-910: the error is swallowed; the first query comes next
         [pc |-> "entrar", l |-> [l EXCEPT !.tx = "buscar", !.vuelta = 1, !.k = 1]]
    ELSE IF l.tx = "buscar"
    THEN IF ~l.error /\ l.k < Len(ConsultasScraper)
         THEN [pc |-> "entrar", l |-> [l EXCEPT !.k = @ + 1]]
         ELSE IF l.filas = <<>> /\ l.vuelta = 1
         THEN \* 927-930: nothing found, the same call once more
              [pc |-> "entrar", l |-> [l EXCEPT !.vuelta = 2, !.k = 1]]
         ELSE \* 935-942
              [pc |-> "entrar",
               l |-> [l EXCEPT
                         !.tx = "guardar_procesos_batch",
                         !.lote = [j \in 1..Len(l.filas) |->
                                      ComoDatos(l.filas[j],
                                                IF l.vuelta = 1 THEN "sqlite_cache"
                                                ELSE "demo")]]]
    ELSE IF l.tx = "guardar_procesos_batch" /\ ~l.error
    THEN [pc |-> "entrar", l |-> [l EXCEPT !.tx = "actualizar_sync_metadata"]]
    ELSE \* 950-951: an error of the batch or of the last update is caught
         [pc |-> "avisar", l |-> [l EXCEPT !.tx = ""]]

\* A with block that gave the lock back only after a commit.
LiberarTrasCommit(h) ==
    IF local[h].error THEN locks
    ELSE [locks EXCEPT ![CandadoDe(local[h].db)] = 0]

\* The end of with _db_lock (33): the lock is released, however the block
\* is left.
Liberar(h) == [locks EXCEPT ![CandadoDe(local[h].db)] = 0]

\* _get_connection 36-43: commit, or rollback when the body raised, then
\* close; leaving the with releases the lock.
Salir(h) ==
    /\ pc[h] = "salir"
    /\ IF local[h].error
       THEN /\ procesos' = Val(local[h].antes).procesos
            /\ sync_metadata' = Val(local[h].antes).sync_metadata
       ELSE UNCHANGED <<procesos, sync_metadata>>
    /\ locks' = Liberar(h)
    /\ LET d == Despues([local[h] EXCEPT !.antes = None])
       IN /\ pc' = [pc EXCEPT ![h] = d.pc]
          /\ local' = [local EXCEPT ![h] = d.l]
    /\ confirmado' = procesos'
    /\ UNCHANGED <<now, _sincronizando, _ultimo_resultado, otros>>

\* _ejecutar_busqueda 893-895: the test of the flag.
Check(h) ==
    /\ pc[h] = "check"
    /\ IF _sincronizando
       THEN /\ pc' = [pc EXCEPT ![h] = "fin"]
            /\ local' = [local EXCEPT ![h].saltada = TRUE]
       ELSE /\ pc' = [pc EXCEPT ![h] = "set"]
            /\ UNCHANGED local
    /\ UNCHANGED <<procesos, sync_metadata, now, locks, _sincronizando,
                   _ultimo_resultado, confirmado, otros>>

\* _ejecutar_busqueda 897-908: the flag is set and the run begins.
Set(h) ==
    /\ pc[h] = "set"
    /\ _sincronizando' = TRUE
    /\ pc' = [pc EXCEPT ![h] = "entrar"]
    /\ local' = [local EXCEPT ![h].marco = TRUE,
                              ![h].tx = "actualizar_sync_metadata"]
    /\ UNCHANGED <<procesos, sync_metadata, now, locks, _ultimo_resultado,
                   confirmado, otros>>

\* The identifiers of the tenders of a result list.
Nomenclaturas(filas) == {filas[j].nomenclatura : j \in 1..Len(filas)}

\* _ejecutar_busqueda 953-967: the new tenders are worked out and the
\* callbacks called with them; what a callback raises is caught.
Avisar(h) ==
    /\ pc[h] = "avisar"
    /\ LET _nuevos_procesos == Nomenclaturas(local[h].filas) \ _ultimo_resultado
       IN local' = [local EXCEPT ![h].avisos =
                       IF _nuevos_procesos # {} THEN @ + 1 ELSE @]
    /\ _ultimo_resultado' = Nomenclaturas(local[h].filas)
    /\ pc' = [pc EXCEPT ![h] = "finally"]
    /\ UNCHANGED <<procesos, sync_metadata, now, locks, _sincronizando,
                   confirmado, otros>>

\* A return that leaves the flag as it is.
SinFinally(h) ==
    /\ pc[h] = "finally"
    /\ pc' = [pc EXCEPT ![h] = "fin"]
    /\ UNCHANGED <<procesos, sync_metadata, now, locks, local, _sincronizando,
                   _ultimo_resultado, confirmado, otros>>

\* _ejecutar_busqueda 979-980: the finally clause.
Finally(h) ==
    /\ pc[h] = "finally"
    /\ _sincronizando' = FALSE
    /\ pc' = [pc EXCEPT ![h] = "fin"]
    /\ UNCHANGED <<procesos, sync_metadata, now, locks, local,
                   _ultimo_resultado, confirmado, otros>>

\* The steps of thread h.
PasoDe(h) ==
    \/ \E op \in OperacionesDe(h) : Llamar(h, op)
    \/ \E s \in BusquedasHilos : Fetch(h, s.b)
    \/ Entrar(h)
    \/ CuerpoInitDb(h)
    \/ CuerpoBuscar(h)
    \/ \E falla \in BOOLEAN : CuerpoBatch(h, falla)
    \/ \E falla \in BOOLEAN : CuerpoMeta(h, falla)
    \/ Salir(h)
    \/ Check(h)
    \/ Set(h)
    \/ Avisar(h)
    \/ Finally(h)

NextHilos ==
    \/ \E h \in Hilos : \E op \in OperacionesDe(h) : Llamar(h, op)
    \/ \E h \in Hilos : \E s \in BusquedasHilos : Fetch(h, s.b)
    \/ \E h \in Hilos : Entrar(h)
    \/ \E h \in Hilos : CuerpoInitDb(h)
    \/ \E h \in Hilos : CuerpoBuscar(h)
    \/ \E h \in Hilos : \E falla \in BOOLEAN : CuerpoBatch(h, falla)
    \/ \E h \in Hilos : \E falla \in BOOLEAN : CuerpoMeta(h, falla)
    \/ \E h \in Hilos : Salir(h)
    \/ \E h \in Hilos : Check(h)
    \/ \E h \in Hilos : Set(h)
    \/ \E h \in Hilos : Avisar(h)
    \/ \E h \in Hilos : Finally(h)

SpecHilos == Init /\ [][NextHilos]_vars

\* The scheduler lets every thread that can take a step take one.
SpecHilosJusto == SpecHilos /\ \A h \in Hilos : WF_vars(PasoDe(h))

(***************************************************************************)
(* The business filters applied to lists of tenders.  The lists are drawn  *)
(* from Candidatos: dicts as buscar or a scraper hands them over, with the *)
(* deadline at a known distance from the day the filter runs on.  Each     *)
(* behaviour draws one list and applies one filter to it.                  *)
(***************************************************************************)
Hora == <<" ", "1", "0", ":", "3", "0">>

Hoys == {<<30, 12, 2026>>, <<27, 2, 2028>>}

DiasLimites == {0, 3}

Montos == {0, 100, MONTO_MINIMO_8_UIT}

Candidatos(h) ==
    << [nomenclatura |-> V("a"), entidad |-> V("E1"),
        valor_referencial |-> V(100),
        fecha_presentacion_propuestas |-> V(strftime_dmy(h))],
       [nomenclatura |-> V("a"), entidad |-> V("E2"),
        valor_referencial |-> V(99),
        fecha_presentacion_propuestas |-> V(strftime_dmy(MasDias(h, 3)) \o Hora)],
       [nomenclatura |-> V("b"), entidad |-> V("E3"),
        valor_referencial |-> V(101),
        fecha_presentacion_propuestas |-> V(strftime_dmy(MasDias(h, 4)))],
       [nomenclatura |-> V("b"), entidad |-> V("E4"),
        valor_referencial |-> None,
        fecha_presentacion_propuestas |-> V(strftime_dmy(MasDias(h, -1)))],
       [nomenclatura |-> V(""), entidad |-> V("E5"),
        valor_referencial |-> V(MONTO_MINIMO_8_UIT),
        fecha_presentacion_propuestas |-> None],
       [nomenclatura |-> None, entidad |-> V("E6"),
        valor_referencial |-> V(0),
        fecha_presentacion_propuestas |-> V(<<>>)],
       [entidad |-> V("E7")],
       [nomenclatura |-> V("c"), entidad |-> V("E8"),
        valor_referencial |-> V(0 - 5),
        fecha_presentacion_propuestas |-> V(TextoISO(MasDias(h, 1)))],
       [nomenclatura |-> V("c"), entidad |-> V("E9"),
        valor_referencial |-> V(MONTO_MINIMO_8_UIT - 1),
        fecha_presentacion_propuestas |->
            V(<<"3", "1", "/", "0", "2", "/", "2", "0", "2", "7">>)],
       [nomenclatura |-> V("d"), entidad |-> V("E10"),
        valor_referencial |-> V(200),
        fecha_presentacion_propuestas |-> V(strftime_dmy(MasDias(h, 1)))] >>

NumCandidatos == Len(Candidatos(<<1, 1, 2026>>))

ListasDe(h) ==
    LET c == Candidatos(h)
    IN {[i \in 1..Len(idxs) |-> c[idxs[i]]] :
            idxs \in SeqsUpTo(1..NumCandidatos, MaxLista)}

InitFiltros ==
    /\ procesos = {}
    /\ sync_metadata = {MetaInicial}
    /\ now = 0
    /\ ult = UltInicial
    /\ resultado = ResultadoInicial
    /\ consulta = ConsultaInicial
    /\ hoy \in Hoys
    /\ entrada \in ListasDe(hoy)
    /\ llamada = LlamadaInicial
    /\ salida = <<>>
    /\ diaria = DiariaInicial
    /\ locks = [c \in Candados |-> 0]
    /\ pc = [h \in Hilos |-> "idle"]
    /\ local = [h \in Hilos |-> LocalInicial]
    /\ _sincronizando = FALSE
    /\ _ultimo_resultado = {}
    /\ confirmado = {}

Deduplicar ==
    /\ llamada.op = "ninguna"
    /\ llamada' = [op |-> "deduplicar_procesos", arg |-> 0]
    /\ salida' = deduplicar_procesos(entrada)
    /\ UNCHANGED <<procesos, sync_metadata, now, ult, resultado, consulta,
                   entrada, hoy, diaria, hilos>>

FiltrarPorMonto(monto_minimo) ==
    /\ llamada.op = "ninguna"
    /\ llamada' = [op |-> "filtrar_por_monto", arg |-> monto_minimo]
    /\ salida' = filtrar_por_monto(entrada, monto_minimo)
    /\ UNCHANGED <<procesos, sync_metadata, now, ult, resultado, consulta,
                   entrada, hoy, diaria, hilos>>

FiltrarUrgentes(dias_limite) ==
    /\ llamada.op = "ninguna"
    /\ llamada' = [op |-> "filtrar_urgentes", arg |-> dias_limite]
    /\ LET r == filtrar_urgentes(entrada, dias_limite, hoy)
       IN /\ entrada' = r.lista
          /\ salida' = r.urgentes
    /\ UNCHANGED <<procesos, sync_metadata, now, ult, resultado, consulta, hoy, diaria, hilos>>

NextFiltros ==
    \/ Deduplicar
    \/ \E m \in Montos : FiltrarPorMonto(m)
    \/ \E d \in DiasLimites : FiltrarUrgentes(d)

SpecFiltros == InitFiltros /\ [][NextFiltros]_vars

(***************************************************************************)
(* Properties of the business filters, checked under SpecFiltros.          *)
(***************************************************************************)
\* The elements of lista at the positions in I, in the order of the list.
RECURSIVE SubLista(_, _, _)
SubLista(lista, I, i) ==
    IF i > Len(lista) THEN <<>>
    ELSE (IF i \in I THEN <<lista[i]>> ELSE <<>>) \o SubLista(lista, I, i + 1)

\* The identifier a record carries; a record whose nomenclatura is missing,
\* None or empty carries none (the data model: identifiers are non-empty).
IdDe(p) == Get(p, "nomenclatura", None)
TieneId(p) == ~IsNone(IdDe(p)) /\ IdDe(p) # V("")

PrimerasApariciones(lista) ==
    {i \in 1..Len(lista) :
        /\ TieneId(lista[i])
        /\ \A j \in 1..(i - 1) : IdDe(lista[j]) # IdDe(lista[i])}

\* C5: deduplicar_procesos returns the first occurrence of each identifier, in
\* input order: every identifier of the input appears exactly once in the
\* output, the record kept is the earliest one carrying it, and the kept
\* records keep their relative order.
C5_DedupPrimeraAparicion ==
    llamada.op = "deduplicar_procesos" =>
        /\ salida = SubLista(entrada, PrimerasApariciones(entrada), 1)
        /\ \A i \in 1..Len(entrada) :
              TieneId(entrada[i]) =>
                  Cardinality({k \in 1..Len(salida) :
                                  IdDe(salida[k]) = IdDe(entrada[i])}) = 1

\* C5 happens: the list [T1(a), T2(b), T3(a)] with T1 # T3 came back as [T1, T2].
C5_Witness ==
    /\ llamada.op = "deduplicar_procesos"
    /\ Len(entrada) = 3
    /\ TieneId(entrada[1]) /\ TieneId(entrada[2])
    /\ IdDe(entrada[1]) = IdDe(entrada[3])
    /\ IdDe(entrada[1]) # IdDe(entrada[2])
    /\ entrada[1] # entrada[3]
    /\ salida = <<entrada[1], entrada[2]>>

\* The reference amount of a tender, an absent or null amount counting as 0.
MontoDeclarado(p) ==
    IF "valor_referencial" \in DOMAIN p /\ ~IsNone(p.valor_referencial)
    THEN Val(p.valor_referencial) ELSE 0

PlazoDe(p) == Get(p, "fecha_presentacion_propuestas", None)

\* The d in 0..limite such that the deadline of p reads as the day d calendar
\* days after h.
DiasHasta(p, h, limite) ==
    {d \in 0..limite :
        /\ ~IsNone(PlazoDe(p))
        /\ Val(PlazoDe(p)) # <<>>
        /\ ParseFecha(Val(PlazoDe(p))) = V(MasDias(h, d))}

\* C7: filtrar_urgentes keeps exactly the tenders whose deadline parses and
\* lies d days from today with 0 <= d <= dias_limite (so never one with a
\* missing or unparseable deadline), and each kept tender carries
\* dias_restantes = d.
C7_UrgentesFrontera ==
    llamada.op = "filtrar_urgentes" =>
        /\ salida = SubLista(entrada,
                             {i \in 1..Len(entrada) :
                                 DiasHasta(entrada[i], hoy, llamada.arg) # {}}, 1)
        /\ \A k \in 1..Len(salida) :
              /\ "dias_restantes" \in DOMAIN salida[k]
              /\ ~IsNone(salida[k].dias_restantes)
              /\ Val(salida[k].dias_restantes)
                    \in DiasHasta(salida[k], hoy, llamada.arg)

\* C7 happens: with dias_limite = 3 a tender due in exactly 3 days was kept
\* with dias_restantes = 3, one due in 4 days was dropped, and so was one
\* without a deadline.
C7_Witness ==
    /\ llamada.op = "filtrar_urgentes"
    /\ llamada.arg = 3
    /\ \E k \in 1..Len(salida) : salida[k].dias_restantes = V(3)
    /\ \E i \in 1..Len(entrada) :
          /\ ~IsNone(PlazoDe(entrada[i]))
          /\ Val(PlazoDe(entrada[i])) = strftime_dmy(MasDias(hoy, 4))
          /\ "dias_restantes" \notin DOMAIN entrada[i]
    /\ \E i \in 1..Len(entrada) :
          /\ IsNone(PlazoDe(entrada[i]))
          /\ "dias_restantes" \notin DOMAIN entrada[i]

(***************************************************************************)
(* The store.                                                              *)
(***************************************************************************)
EsEscritura == ult.op \in {"guardar_proceso", "guardar_procesos_batch"}

\* The dicts handed to the last write.
Escritos == IF EsEscritura THEN DictsDe(ult.lote) ELSE <<>>

\* The last dict of the write that carries the identifier of Escritos[j].
EsUltimoConSuId(j) ==
    ~\E k \in (j + 1)..Len(Escritos) : IdDe(Escritos[k]) = IdDe(Escritos[j])

\* What the schema promises for record B: its own value for every data
\* column it has, the DEFAULT of the column or NULL for the others.
Esperado(B) ==
    [c \in ColumnasDato |->
        IF c \in DOMAIN B THEN B[c] ELSE Get(ColumnDefault, c, None)]

FilasCon(tabla, nom) == {r \in tabla : r.nomenclatura = nom}

\* C1: after a write (guardar_proceso or guardar_procesos_batch), for every
\* identifier written, the table holds exactly one row with it and each data
\* column of that row is the value of the last record written with that
\* identifier (the column default or NULL where the record has no value),
\* whatever row the identifier had before.
C1_UltimoEscritorGana ==
    EsEscritura =>
        \A j \in 1..Len(Escritos) :
            (~IsNone(IdDe(Escritos[j])) /\ EsUltimoConSuId(j)) =>
                /\ Cardinality(FilasCon(procesos, IdDe(Escritos[j]))) = 1
                /\ \A r \in FilasCon(procesos, IdDe(Escritos[j])) :
                       \A c \in ColumnasDato : r[c] = Esperado(Escritos[j])[c]

\* Record 1 (identifier "a", with a description and a department) was in the
\* table and record 2 (same identifier, neither field) has been written over it.
C1_Witness ==
    /\ ult.op = "guardar_proceso"
    /\ ult.lote = <<2>>
    /\ \E a \in ult.antes :
           /\ a.nomenclatura = V("a")
           /\ a.descripcion = V("Descripcion de prueba")
           /\ a.valor_referencial = V(100)
    /\ \E r \in procesos :
           /\ r.nomenclatura = V("a")
           /\ r.descripcion = None
           /\ r.valor_referencial = V(42800)

\* The rows the table held before the last guardar_proceso that carry the
\* identifier and the data of the record just written: what a first call with
\* the same record left.
FilasDeLaPrimeraLlamada ==
    IF ult.op # "guardar_proceso" THEN {}
    ELSE LET B == Procesos[ult.lote[1]]
         IN {a \in ult.antes :
                /\ ~IsNone(IdDe(B))
                /\ \A c \in ColumnasDato : a[c] = Esperado(B)[c]}

\* C2: when guardar_proceso is called with a record whose row is already in
\* the table with the same data, the table then holds exactly one row with
\* that identifier, its data columns are unchanged, and its actualizado_en is
\* strictly greater than before.
C2_UpsertIdempotente ==
    \A a \in FilasDeLaPrimeraLlamada :
        /\ Cardinality(FilasCon(procesos, a.nomenclatura)) = 1
        /\ \A r \in FilasCon(procesos, a.nomenclatura) :
               /\ \A c \in ColumnasDato : r[c] = a[c]
               /\ TextLt(Val(a.actualizado_en), Val(r.actualizado_en))

\* The second call happens within the hour of the first.
C2_Witness ==
    /\ FilasDeLaPrimeraLlamada # {}
    /\ \E a \in FilasDeLaPrimeraLlamada, r \in procesos :
           /\ r.nomenclatura = a.nomenclatura
           /\ Val(a.actualizado_en)[1] = Val(r.actualizado_en)[1]

\* C3: no two rows of procesos have the same nomenclatura.
C3_NomenclaturaUnica ==
    \A r \in procesos, s \in procesos :
        r.nomenclatura = s.nomenclatura => r = s

\* A sync run has written a row whose identifier was in the table before.
C3_Witness ==
    /\ ult.op = "sincronizar_sqlite"
    /\ \E a \in ult.antes, r \in procesos :
           /\ r.nomenclatura = a.nomenclatura
           /\ r # a

\* C4: after a sync run every row of procesos has a non-empty nomenclatura.
C4_SinIdentificadorRechazado ==
    ult.op = "sincronizar_sqlite" =>
        \A r \in procesos : ~IsNone(r.nomenclatura) /\ Val(r.nomenclatura) # ""

(***************************************************************************)
(* Queries.                                                                *)
(***************************************************************************)
\* The clock reading a timestamp text was written at.
Tiempo(texto) ==
    texto[1] * TicksPorHora + (IF Len(texto) > 1 THEN texto[2] ELSE 0)

SoloFrescura(q) ==
    /\ IsNone(q.departamento) /\ IsNone(q.tipo_objeto)
    /\ IsNone(q.estado) /\ IsNone(q.texto)

Devuelta(r) == \E i \in 1..Len(consulta.filas) : consulta.filas[i] = r

\* C8: a call of buscar with no other filter and a limit the table does not
\* reach returns, with solo_frescos, exactly the rows written at most
\* horas_frescura hours before the call, and without solo_frescos every row.
C8_ConsultaFrescura ==
    (/\ consulta.hecha
     /\ SoloFrescura(Consultas[consulta.k])
     /\ Cardinality(procesos) <= Consultas[consulta.k].limite) =>
        \A r \in procesos :
            Devuelta(r) <=>
                \/ ~Consultas[consulta.k].solo_frescos
                \/ consulta.t - Tiempo(Val(r.actualizado_en))
                       <= timedelta_hours(Consultas[consulta.k].horas_frescura)

\* A query with a window of one hour finds a row written exactly one hour
\* before and leaves out one written earlier.
C8_Witness ==
    /\ consulta.hecha
    /\ consulta.k = 1
    /\ \E r \in procesos :
           /\ consulta.t - Tiempo(Val(r.actualizado_en)) = timedelta_hours(1)
           /\ Devuelta(r)
    /\ \E r \in procesos :
           /\ consulta.t - Tiempo(Val(r.actualizado_en)) > timedelta_hours(1)
           /\ ~Devuelta(r)

(***************************************************************************)
(* Sync runs.                                                              *)
(***************************************************************************)
\* The releases pulled by the last sync run that fail normalization, and
\* those that pass it.
Fallidos ==
    {j \in 1..Len(ult.lote) : IsNone(convertir_a_proceso(Releases[ult.lote[j]]))}

Normalizados == (1..Len(ult.lote)) \ Fallidos

\* C9: a sync run that pulled N releases of which k fail normalization
\* reports guardados = N - k and errores = k, and the table has a row for each
\* release that normalized.
C9_FalloParcial ==
    (ult.op = "sincronizar_sqlite" /\ resultado.corrida) =>
        /\ resultado.guardados = Len(ult.lote) - Cardinality(Fallidos)
        /\ resultado.errores = Cardinality(Fallidos)
        /\ \A j \in Normalizados :
               \E r \in procesos :
                   r.nomenclatura =
                       Val(convertir_a_proceso(Releases[ult.lote[j]])).nomenclatura

\* C10: after a sync run whose fetch failed, the table is the table of before
\* the run and buscar still returns every row it held.
C10_FalloDeFetchNoEscribe ==
    (ult.op = "sincronizar_sqlite" /\ ult.fallo) =>
        /\ procesos = ult.antes
        /\ \A a \in ult.antes :
               \E i \in 1..Len(buscar(procesos, Consultas[3], now)) :
                   buscar(procesos, Consultas[3], now)[i] = a

\* C11: after a sync run whose fetch failed, the sync_metadata row has estado
\* 'error', and the report returned signals the failure: exito is False, an
\* error is counted, and the message is not the one of a run that found no
\* records.
C11_FalloDeFetchRegistrado ==
    (ult.op = "sincronizar_sqlite" /\ ult.fallo) =>
        /\ \A m \in sync_metadata : m.estado = V("error")
        /\ ~resultado.exito
        /\ resultado.errores >= 1
        /\ resultado.mensaje # <<"No se encontraron procesos en OCDS">>

\* C12: when a sync run has returned, the sync_metadata row has estado
\* 'completado' or 'error', whether the run saved rows, found nothing or failed.
C12_EstadoFinalDeSync ==
    ult.op = "sincronizar_sqlite" =>
        \A m \in sync_metadata : m.estado \in {V("completado"), V("error")}

\* The positions of the last batch whose row the store accepts.
Aceptados ==
    IF ult.op # "guardar_procesos_batch" THEN {}
    ELSE {j \in 1..Len(ult.lote) : ~IsNone(IdDe(Procesos[ult.lote[j]]))}

\* C13: after guardar_procesos_batch, the count returned is the number of
\* rows of the batch the store accepted, and every accepted record has its
\* row, stamped during the batch, wherever the rejected rows stand in the list.
C13_LoteAislaFallos ==
    ult.op = "guardar_procesos_batch" =>
        /\ ult.guardados = Cardinality(Aceptados)
        /\ \A j \in Aceptados :
               \E r \in procesos :
                   /\ r.nomenclatura = IdDe(Procesos[ult.lote[j]])
                   /\ Tiempo(Val(r.actualizado_en)) >= ult.t
                   /\ Tiempo(Val(r.actualizado_en)) < ult.t + Len(ult.lote)

\* A batch whose first row has a null identifier and whose second is saved.
C13_Witness ==
    /\ ult.op = "guardar_procesos_batch"
    /\ Len(ult.lote) = 2
    /\ 1 \notin Aceptados
    /\ 2 \in Aceptados
    /\ ult.guardados = 1
    /\ \E r \in procesos : r.nomenclatura = IdDe(Procesos[ult.lote[2]])

\* The stored names of the categories the short code c stands for on the
\* write path.
NombresDe(c) ==
    {TIPOS_OCDS_MAP[TIPOS_INTERNOS_MAP[c][i]] : i \in 1..Len(TIPOS_INTERNOS_MAP[c])}

SoloCategoria(q) ==
    /\ IsNone(q.departamento) /\ IsNone(q.estado) /\ IsNone(q.texto)
    /\ ~IsNone(q.tipo_objeto) /\ ~q.solo_frescos

\* C14: a call of buscar by category alone, the limit not reached, returns
\* exactly the rows whose tipo_objeto is the stored name of that category.
C14_CategoriaLecturaEscritura ==
    (/\ consulta.hecha
     /\ SoloCategoria(Consultas[consulta.k])
     /\ Cardinality(procesos) <= Consultas[consulta.k].limite) =>
        \A r \in procesos :
            Devuelta(r) <=>
                /\ ~IsNone(r.tipo_objeto)
                /\ Val(r.tipo_objeto) \in NombresDe(Val(Consultas[consulta.k].tipo_objeto))

\* The day of publication of a row, as an ordinal; None when the column
\* holds no date.
DiaPublicado(r) ==
    IF ~TruthyCadena(r.fecha_publicacion) THEN None
    ELSE LET f == ParseFecha(Val(r.fecha_publicacion))
         IN IF IsNone(f) THEN None ELSE V(toordinal(Val(f)))

\* Row r has to come before row s: it was published on a later day, or on
\* the same day and refreshed later.
DebeIrAntes(r, s) ==
    /\ ~IsNone(DiaPublicado(r)) /\ ~IsNone(DiaPublicado(s))
    /\ \/ Val(DiaPublicado(r)) > Val(DiaPublicado(s))
       \/ /\ DiaPublicado(r) = DiaPublicado(s)
          /\ Tiempo(Val(r.actualizado_en)) > Tiempo(Val(s.actualizado_en))

Coinciden == {r \in procesos : Where(r, Consultas[consulta.k], consulta.t)}

\* C15: buscar returns min(limite, matching rows) distinct matching rows, no
\* row in it comes after one it has to come before, and no row left out has
\* to come before a row returned.
C15_OrdenYLimite ==
    consulta.hecha =>
        /\ Len(consulta.filas) =
               (IF Cardinality(Coinciden) < Consultas[consulta.k].limite
                THEN Cardinality(Coinciden) ELSE Consultas[consulta.k].limite)
        /\ \A i \in 1..Len(consulta.filas) : consulta.filas[i] \in Coinciden
        /\ \A i \in 1..Len(consulta.filas), j \in 1..Len(consulta.filas) :
               i < j => /\ consulta.filas[i] # consulta.filas[j]
                        /\ ~DebeIrAntes(consulta.filas[j], consulta.filas[i])
        /\ \A r \in Coinciden :
               ~Devuelta(r) =>
                   \A i \in 1..Len(consulta.filas) : ~DebeIrAntes(r, consulta.filas[i])

\* C16: when actualizar_sync_metadata has returned, sync_metadata has exactly
\* one row, the row with id 1 and the estado handed over, and its
\* total_procesos is the number of rows of procesos.
C16_TotalEnVivo ==
    ult.op = "actualizar_sync_metadata" =>
        /\ Cardinality(sync_metadata) = 1
        /\ \A m \in sync_metadata :
               /\ m.id = 1
               /\ m.estado = V(Actualizaciones[ult.lote[1]].estado)
               /\ m.total_procesos = Cardinality(procesos)

\* An 'error' is recorded while the table holds a row, after a purge had
\* emptied a table the metadata had counted one row in.
C16_Witness ==
    /\ ult.op = "actualizar_sync_metadata"
    /\ Actualizaciones[ult.lote[1]].estado = "error"
    /\ Cardinality(procesos) = 1
    /\ \E r \in procesos : Tiempo(Val(r.actualizado_en)) >= timedelta_days(1)
    /\ \A m \in sync_metadata : m.total_procesos = 1

\* C17: a step of limpiar_datos_antiguos(dias) at clock reading now removes
\* exactly the rows written before now - dias days, returns how many it
\* removed, and leaves sync_metadata as it was.
C17_PurgaExacta ==
    [][(ult'.op = "limpiar_datos_antiguos" /\ ult' # ult) =>
          /\ procesos' =
                 {r \in procesos :
                      Tiempo(Val(r.actualizado_en))
                          >= now - ult'.lote[1] * 24 * TicksPorHora}
          /\ ult'.guardados = Cardinality(procesos) - Cardinality(procesos')
          /\ sync_metadata' = sync_metadata]_vars

\* A purge of rows older than one day has removed a row and kept the row
\* written exactly one day before it.
C17_Witness ==
    /\ ult.op = "limpiar_datos_antiguos"
    /\ ult.lote = <<1>>
    /\ ult.guardados >= 1
    /\ \E r \in procesos :
           Tiempo(Val(r.actualizado_en)) = ult.t - timedelta_days(1)
    /\ \A m \in sync_metadata : m.estado # V("pendiente")

(***************************************************************************)
(* Frame of the business filters.                                          *)
(***************************************************************************)
\* C18: no step of deduplicar_procesos, filtrar_por_monto or filtrar_urgentes
\* changes the list handed to it or a record of that list.
C18_FiltrosSinEfectos ==
    [][entrada' = entrada]_vars

\* C19: every tender the normalizer made of a release pulled by the last
\* sync run has a region that is neither null nor empty, and so has its row.
C19_RegionNoVacia ==
    ult.op = "sincronizar_sqlite" =>
        /\ \A j \in Normalizados :
               TruthyTexto(Val(convertir_a_proceso(Releases[ult.lote[j]])).departamento)
        /\ \A r \in procesos :
               r.fuente = V("ocds") => TruthyTexto(r.departamento)

\* C20: in every reachable state of the store each row's valor_referencial
\* is a number, never NULL, and is not negative.
C20_MontoNoNegativo ==
    \A r \in procesos :
        /\ ~IsNone(r.valor_referencial)
        /\ Val(r.valor_referencial) >= 0

\* The tender made of the j-th release pulled by the last sync run.
NormalizadoDe(j) == Val(convertir_a_proceso(Releases[ult.lote[j]]))

\* The normalized releases of the last sync run that are the first of the
\* run with their identifier.
PrimerosDelRun ==
    {j \in Normalizados :
        ~\E i \in Normalizados :
            i < j /\ NormalizadoDe(i).nomenclatura = NormalizadoDe(j).nomenclatura}

\* C24: a sync run that saved every tender it normalized counts each
\* identifier once in guardados, and the row of an identifier holds the
\* fields of the first tender of the run with that identifier.
C24_SyncDeduplica ==
    (/\ ult.op = "sincronizar_sqlite"
     /\ resultado.corrida
     /\ resultado.procesados = Cardinality(Normalizados)) =>
        /\ resultado.guardados = Cardinality(PrimerosDelRun)
        /\ \A j \in PrimerosDelRun :
               \E r \in procesos :
                   \A c \in DOMAIN NormalizadoDe(j) :
                       r[c] = NormalizadoDe(j)[c]

\* The release has a bid-submission milestone due d days after day h.
VenceEn(release, h, d) ==
    /\ ~ConversionFalla(release)
    /\ LET milestones ==
               Val(Get(Val(release.tender), "milestones", V(EmptyList)))
       IN \E k \in 1..Len(milestones) :
              /\ Contiene(lower(Val(Get(milestones[k], "code", V("")))), "propuesta")
              /\ Get(milestones[k], "dueDate", V(<<>>)) = V(TextoISO(MasDias(h, d)))

\* The urgent tenders among the rows buscar(limite=500, solo_frescos=False)
\* returns, as the daily pipeline asks for them.
UrgentesDelAlmacen ==
    filtrar_urgentes(buscar(procesos, Consultas[3], now), 3, hoy).urgentes

\* C27: after a sync run, a tender of the feed whose bid-submission milestone
\* is d days ahead, 0 <= d <= 3, and whose row is in the table is among the
\* tenders filtrar_urgentes(dias_limite=3) keeps of the rows buscar returns,
\* with dias_restantes = d.
C27_UrgenciaDeExtremoAExtremo ==
    ult.op = "sincronizar_sqlite" =>
        \A j \in Normalizados : \A d \in 0..3 :
            (/\ VenceEn(Releases[ult.lote[j]], hoy, d)
             /\ \E r \in procesos :
                    /\ r.nomenclatura = NormalizadoDe(j).nomenclatura
                    /\ r.fecha_presentacion_propuestas =
                           NormalizadoDe(j).fecha_presentacion_propuestas) =>
                \E i \in 1..Len(UrgentesDelAlmacen) :
                    /\ UrgentesDelAlmacen[i].nomenclatura =
                           NormalizadoDe(j).nomenclatura
                    /\ UrgentesDelAlmacen[i].dias_restantes = V(d)

(***************************************************************************)
(* The daily pipeline, checked under SpecDiaria.                           *)
(***************************************************************************)
\* C30: a run of the daily pipeline whose sync stage returned exito = False
\* does not report exito = True.
C30_ExitoSoloSiSync ==
    (diaria.corrida /\ ~diaria.sync_result.exito) => ~diaria.exito

(***************************************************************************)
(* The threads, checked under SpecHilos.                                   *)
(***************************************************************************)
\* Thread h is inside a store transaction: between the connect and the close
\* of _get_connection.
EnTransaccion(h) == pc[h] \in {"cuerpo", "salir"}

\* C21: at most one thread at a time is inside a store transaction, whatever
\* the operations the threads run and whatever the SeaceDB instances they
\* run them on.
C21_ExclusionMutua ==
    \A h1 \in Hilos : \A h2 \in Hilos :
        (EnTransaccion(h1) /\ EnTransaccion(h2)) => h1 = h2

\* A reader is inside a transaction of the SeaceDB it made for itself while
\* a writer waits to open one on the singleton.
C21_Witness ==
    \E h1 \in Hilos : \E h2 \in Hilos :
        /\ local[h1].op = "buscar"
        /\ local[h1].tx = "buscar"
        /\ EnTransaccion(h1)
        /\ local[h2].op = "sincronizar_sqlite"
        /\ local[h2].db # local[h1].db
        /\ pc[h2] = "entrar"

\* C23: a sync run that is fetching from the API holds no lock and has
\* opened no store transaction yet.
C23_FetchSinCandado ==
    \A h \in Hilos :
        pc[h] = "fetch" =>
            /\ \A c \in Candados : locks[c] # h
            /\ local[h].transacciones = 0

\* A query runs its SELECT while a sync run is fetching.
C23_Witness ==
    \E h1 \in Hilos : \E h2 \in Hilos :
        /\ pc[h1] = "fetch"
        /\ local[h2].op = "buscar"
        /\ local[h2].tx = "buscar"
        /\ pc[h2] = "cuerpo"

\* The rows thread h has written, one of them under identifier n.
EscribioBajo(h, n) == {r \in local[h].escritas : r.nomenclatura = n}

\* Thread h has run the SELECT of a query and not left its transaction yet.
AcabaDeLeer(h) ==
    /\ local[h].op = "buscar"
    /\ local[h].tx = "buscar"
    /\ pc[h] = "salir"

\* C22: every row of the table equals, in all its columns, a row some run
\* wrote as a whole; a reader gets exactly the rows of the last commit,
\* never part of a batch that is still being written or that was rolled
\* back; and outside of transactions the table is the last commit.
C22_FilaEntera ==
    /\ \A r \in procesos : \E h \in Hilos : r \in local[h].escritas
    /\ \A h \in Hilos :
           AcabaDeLeer(h) =>
               /\ Len(local[h].filas) = Cardinality(confirmado)
               /\ {local[h].filas[i] : i \in 1..Len(local[h].filas)} = confirmado
    /\ (\A h \in Hilos : ~EnTransaccion(h)) => procesos = confirmado

\* Two sync runs have ended after writing different records under the same
\* identifier, and the table holds a row under it.
C22_Witness ==
    \E h1 \in Hilos : \E h2 \in Hilos \ {h1} :
        /\ local[h1].op = "sincronizar_sqlite" /\ pc[h1] = "fin"
        /\ local[h2].op = "sincronizar_sqlite" /\ pc[h2] = "fin"
        /\ \E r1 \in local[h1].escritas : \E r2 \in local[h2].escritas :
               /\ r1.nomenclatura = r2.nomenclatura
               /\ \E c \in ColumnasDato : r1[c] # r2[c]
               /\ \E r \in procesos : r.nomenclatura = r1.nomenclatura

\* Thread h is running the body of _ejecutar_busqueda: it has set the flag
\* and has not returned.
EnBusqueda(h) ==
    /\ local[h].op = "_ejecutar_busqueda"
    /\ local[h].marco
    /\ pc[h] # "fin"

\* C25: at most one thread at a time is running the body of
\* _ejecutar_busqueda, and a call that returned because a run was in
\* progress has opened no store transaction and called no callback.
C25_UnaSolaBusqueda ==
    /\ \A h1 \in Hilos : \A h2 \in Hilos :
           (EnBusqueda(h1) /\ EnBusqueda(h2)) => h1 = h2
    /\ \A h \in Hilos :
           local[h].saltada =>
               /\ local[h].transacciones = 0
               /\ local[h].avisos = 0
               /\ local[h].escritas = {}

\* Thread h is inside the batch transaction of a run of _ejecutar_busqueda.
GuardandoBusqueda(h) ==
    /\ local[h].op = "_ejecutar_busqueda"
    /\ local[h].tx = "guardar_procesos_batch"
    /\ pc[h] = "cuerpo"

\* C26: a step taken while a run of _ejecutar_busqueda is writing its batch
\* leaves actualizado_en and fuente of every row already in the table as
\* they were.
C26_BusquedaNoRefresca ==
    [][(\E h \in Hilos : GuardandoBusqueda(h)) =>
           \A r \in procesos :
               \E r2 \in procesos' :
                   /\ r2.nomenclatura = r.nomenclatura
                   /\ r2.actualizado_en = r.actualizado_en
                   /\ r2.fuente = r.fuente]_vars

\* A thread holds a lock only inside a transaction, and a thread about to
\* take the lock does not hold it.
CandadoSoloEnTransaccion ==
    \A h \in Hilos : \A c \in Candados :
        locks[c] = h => (EnTransaccion(h) /\ c = CandadoDe(local[h].db))

\* C28: the lock is held only between the connect and the close of a
\* transaction, whether the transaction commits or is rolled back, never by
\* a thread that is about to take it; and, checked under SpecHilosJusto, a
\* thread waiting for the lock gets inside its transaction.
C28_CandadoLiberado ==
    /\ []CandadoSoloEnTransaccion
    /\ \A h \in Hilos : (pc[h] = "entrar") ~> (pc[h] = "cuerpo")

\* A thread is inside a transaction while the last transaction of the other
\* thread has been rolled back.
C28_Witness ==
    \E h1 \in Hilos : \E h2 \in Hilos \ {h1} :
        /\ pc[h1] = "cuerpo"
        /\ locks[_db_lock] = h1
        /\ local[h2].error
        /\ local[h2].transacciones > 0
        /\ ~EnTransaccion(h2)

\* C29: the step that ends a run of _ejecutar_busqueda that had set the flag
\* leaves _sincronizando false, and the return of a call that found the
\* flag set leaves it set.
C29_BanderaRestaurada ==
    [][\A h \in Hilos :
          /\ (local[h].marco /\ pc[h] # "fin" /\ pc'[h] = "fin") =>
                 ~_sincronizando'
          /\ (pc[h] = "check" /\ pc'[h] = "fin") =>
                 (_sincronizando /\ _sincronizando')]_vars

\* A run whose batch or last update raised has ended and the flag is false,
\* after another call had returned because the run was in progress.
C29_Witness ==
    \E h1 \in Hilos : \E h2 \in Hilos \ {h1} :
        /\ local[h1].marco /\ pc[h1] = "fin" /\ local[h1].error
        /\ local[h2].saltada /\ pc[h2] = "fin"
        /\ ~_sincronizando

====
